---- MODULE Spec2Model ----
(***************************************************************************)
(* Data-access layer of the weather application (src/src/utils/api.ts and  *)
(* src/src/utils/apiCounter.ts): the rate limiter, the versioned cache,    *)
(* the usage counter and the fetch wrapper with timeout and retries.       *)
(* Times are in milliseconds, as returned by Date.now().                   *)
(***************************************************************************)
EXTENDS Integers, Sequences, FiniteSets, TLC

(***************************************************************************)
(* Bounds of the model                                                     *)
(***************************************************************************)
\* CONFIG.API.RATE_LIMIT is 30 in the source; the model runs the limiter with
\* a smaller limit so that saturation is reached within the explored runs.
RATE_LIMIT == 3
\* calls explored beyond saturation of one window
MaxOver == 2
\* the clock stops advancing here
MaxTime == 125000
\* CONFIG.CACHE.MAX_SIZE is 50 in the source; the model builds its caches with
\* a smaller capacity (the constructor's maxSize) so that they fill up.
MAX_SIZE == 2
\* calls of fetchApi explored in one run
MaxCalls == 4
\* the usage counter's calendar: a month of the model lasts this long
MonthLength == 100000
\* calls of searchCities, getWeatherData and getForecastData explored in one run
MaxServiceCalls == 2
\* provider readings explored by the normalisation, in tenths: temp_c is in
\* 0..MaxTempTenths, feelslike_c in -MaxFeelsTenths..MaxFeelsTenths and
\* wind_kph in 0..MaxWindTenths
MaxTempTenths == 190
MaxFeelsTenths == 6
MaxWindTenths == 240
\* calls of increment and getCount followed on the counter alone
MaxCounterCalls == 4
\* process lifetimes followed: the first and what follows a restart
MaxInstances == 2
\* calls of handleSearch followed up to their requests
MaxSearches == 2
\* calls of searchCities made by the component
MaxLookups == 1

(***************************************************************************)
(* Program constants                                                       *)
(***************************************************************************)
WINDOW_MS == 60000
TIMEOUT == 30000
maxRetries == 2
baseDelay == 1000
RETRY_CAP == 5000
CACHE_DURATION == 300000
MIN_QUERY_LENGTH == 2
MIN_SEARCH_LENGTH == 2

\* values of CONFIG.CACHE.VERSION: the configured one and the one a later
\* release of the configuration sets
Versions == <<"1.0.0", "1.0.1">>
\* A JavaScript string is the sequence of its characters: '' is <<>>.
\* cache keys: the empty string and three others
Keys == {<<>>, <<"a">>, <<"b">>, <<"c">>}
\* cached payloads
Values == {"v1", "v2"}
\* what a JavaScript lookup yields when there is nothing
Undefined == [undefined |-> TRUE]

\* the callers of fetchApi
Procs == {"p1"}
\* the callers of fetchApi when several calls are in progress at once
Callers == {"p1", "p2"}
\* optional parts of a response body: what the body holds under forecast
NoHourlyDay ==
  [date |-> "2024-05-01", avgtemp_c |-> 174, mintemp_c |-> 125,
   maxtemp_c |-> 215, hour |-> Undefined]
HourlyDay == [NoHourlyDay EXCEPT !.hour = [items |-> <<[temp_c |-> 180]>>]]
ForecastParts ==
  {Undefined,
   [forecastday |-> Undefined],
   [forecastday |-> [items |-> <<NoHourlyDay>>]],
   [forecastday |-> [items |-> <<HourlyDay>>]]}
\* response bodies of the provider: the parts of them that the operations
\* read, numbers in tenths
Payloads ==
  {[items |-> <<"London", "Londonderry">>,
    temp_c |-> 186, feelslike_c |-> 0 - 5, wind_kph |-> 108,
    forecast |-> f] : f \in ForecastParts}
\* the empty array
EmptyList == [items |-> <<>>]
\* values of VITE_WEATHER_API_KEY: not configured, or configured
ApiKeys == {<<>>, <<"k">>}
\* the three operations of the service
Operations == {"searchCities", "getWeatherData", "getForecastData"}
\* queries and city names given to the operations; "<D800>" is one UTF-16
\* code unit, a surrogate without its pair
Queries ==
  {<<>>, <<" ", " ">>, <<"a">>, <<" ", "a">>, <<"A", "b">>,
   <<"a", "b", " ">>, <<"a", "<D800>">>}

\* ERROR_MESSAGES, a message being the sequence of its words
MSG_RATE_LIMIT == <<"Please", "wait", "a", "moment", "before", "trying", "again">>
MSG_NETWORK_ERROR == <<"Please", "check", "your", "internet", "connection">>
MSG_GENERIC_ERROR == <<"Unable", "to", "fetch", "weather", "information.">>
\* the errorMessage argument of fetchApi, followed by the status
MSG_LABEL_STATUS == <<"Failed", "to", "fetch", "weather", "data", "(Status:", "500)">>
\* error messages a provider can put in the body of a non-2xx response
ProviderMessages ==
  {<<"No", "matching", "location", "found.">>,
   <<"Internal", "network", "failure">>}
\* messages of the TypeError with which fetch() or the reading of a body fails
NetworkFailureMessages == {<<"Failed", "to", "fetch">>, <<"network", "error">>}
\* message of the SyntaxError of response.json() on a body that is not JSON
MSG_SYNTAX == <<"Unexpected", "token", "in", "JSON">>
MSG_ABORT == <<"The", "user", "aborted", "a", "request.">>
MSG_EMPTY_CITY == <<"Please", "enter", "a", "city", "name">>
MSG_API_KEY_MISSING == <<"Weather", "API", "key", "is", "not", "configured">>
MSG_INVALID_FORECAST ==
  <<"Invalid", "forecast", "data", "received", "from", "API">>
MSG_URI_MALFORMED == <<"URI", "malformed">>

\* ERROR_MESSAGES of the Weather component
UI_MSG_SEARCH_TIMEOUT ==
  <<"Search", "request", "timed", "out.", "Please", "try", "again.">>
UI_MSG_GENERIC_ERROR == <<"An", "error", "occurred.", "Please", "try", "again.">>
UI_MSG_MIN_LENGTH == <<"Please", "enter", "at", "least", "2", "characters">>
UI_MSG_INVALID_STRUCTURE ==
  <<"Invalid", "forecast", "data", "structure", "received">>
\* what the user types in the input
Cities == {<<"a">>, <<"a", "b">>}
\* the cities the provider suggests, each by its name, and what
\* handleSuggestionClick appends to the name
CityList == [items |-> <<<<"c", "d">>>>]
COUNTRY == <<",", " ", "x">>
\* null
Null == [null |-> TRUE]

NoTime == 0 - 1
EmptyRun == [pure |-> TRUE, keys |-> <<>>]
NoRun == [pure |-> FALSE, keys |-> <<>>]

Min(a, b) == IF a < b THEN a ELSE b

VARIABLES
  now,            \* Date.now()
  rateLimiter,    \* the RateLimiter instance: [requests, lastReset]
  \* observations of the calls of canMakeRequest
  firstCallAt,    \* instant of the first call since construction, or NoTime
  grantsFromFirst,\* calls answered true less than 60 s after the first call
  windowCalls,    \* calls made since the limiter last reset its window
  windowGrants,   \* of these, the calls answered true
  lastCallAt,     \* instant of the latest call, or NoTime
  lastResult,     \* answer given to the latest call
  cacheVersion,   \* CONFIG.CACHE.VERSION
  cache,          \* an LRUCache instance: its Map, in insertion order
  cacheLastOp,    \* the latest operation on the cache and what it returned
  setRun,         \* keys given to set since the cache was empty; pure
                  \* while nothing but set was called since then
  state,          \* apiCounter.state: [count, lastReset]
  storedItem,     \* localStorage item CONFIG.API.STORAGE_KEY
  calls,          \* per caller, its call of fetchApi: where it stands, its
                  \* locals, and what an observer counted for it
  callsStarted,   \* calls of fetchApi made so far
  attemptsInWindow, \* fetch() requests issued since the limiter's last reset
  admittedInMonth, \* calls the limiter admitted during the calendar month of
                  \* the latest of them
  apiKey,         \* import.meta.env.VITE_WEATHER_API_KEY
  cityCache,      \* the Map of cityCache
  weatherCache,   \* the Map of weatherCache
  op,             \* per caller, its call of a service operation
  serviceCalls,   \* calls of the service operations made so far
  lastCached,     \* the latest searchCities that stored its result: the
                  \* query, the result and the instant
  sample,         \* a provider reading and what getWeatherData makes of it
  setItemFails,   \* localStorage.setItem throws (quota, private mode)
  instance,       \* the ApiCallCounter of this process lifetime: its number
                  \* and what an observer noted of it
  counterLog,     \* the latest call on the counter and what it returned
  seen,           \* what getCount last returned, and in which month
  counterCalls,   \* calls of increment and getCount made so far
  \* the Weather component of one UI session
  ui,             \* its React state
  refs,           \* its refs: the two timers and the AbortController
  lookup,         \* the searchCities call of the debounce callback
  lookupsStarted, \* calls of searchCities made so far
  searches,       \* the calls of handleSearch that reached its requests
  searchesStarted,\* their number
  grantTimes,     \* instants of the latest calls that canMakeRequest
                  \* answered true, 2 * RATE_LIMIT + 1 of them at most
  \* observations of the order in which the cache is used
  insertOrder,    \* keys of the entries present, by the set that created them
  useOrder,       \* keys of the entries present, by their creation or their
                  \* latest get hit, whichever came last
  lastSet,        \* what the latest operation, if a set, met and evicted
  hits            \* per key, what happened since get last returned its entry

clockVars == <<now>>
lruVars == <<insertOrder, useOrder, lastSet, hits>>
cacheVars == <<cacheVersion, cache, cacheLastOp, setRun, lruVars>>
rlVars == <<rateLimiter, windowCalls, windowGrants, lastResult>>
rlInstantVars == <<firstCallAt, grantsFromFirst, lastCallAt>>
counterVars == <<state, storedItem>>
fetchVars == <<calls, callsStarted, attemptsInWindow, admittedInMonth>>
serviceVars == <<apiKey, cityCache, weatherCache, op, serviceCalls, lastCached>>
roundVars == <<sample>>
storageVars == <<setItemFails, instance, counterLog, seen, counterCalls>>
uiVars == <<ui, refs, lookup, lookupsStarted, searches, searchesStarted>>
watchVars == <<grantTimes>>
laterVars == <<storageVars, uiVars, watchVars>>
outerVars == <<serviceVars, roundVars, laterVars>>
vars == <<clockVars, rlVars, rlInstantVars, cacheVars, counterVars, fetchVars,
          outerVars>>

(***************************************************************************)
(* RateLimiter                                                             *)
(***************************************************************************)
\* new RateLimiter() at instant t
RateLimiterNew(t) == [requests |-> 0, lastReset |-> t]

\* canMakeRequest with an off-by-one comparison
canMakeRequestOffByOne(rl, t) ==
  LET r == IF t - rl.lastReset > WINDOW_MS
           THEN [requests |-> 0, lastReset |-> t]
           ELSE rl
  IN [ok |-> r.requests <= RATE_LIMIT,
      rl |-> [r EXCEPT !.requests = @ + 1]]

\* canMakeRequest with a window of half the length
canMakeRequestHalfWindow(rl, t) ==
  LET r == IF t - rl.lastReset >= WINDOW_MS \div 2
           THEN [requests |-> 0, lastReset |-> t]
           ELSE rl
  IN [ok |-> r.requests < RATE_LIMIT,
      rl |-> [r EXCEPT !.requests = @ + 1]]

\* RateLimiter.canMakeRequest at instant t: the answer and the limiter after
canMakeRequest(rl, t) ==
  LET r == IF t - rl.lastReset > WINDOW_MS
           THEN [requests |-> 0, lastReset |-> t]
           ELSE rl
  IN [ok |-> r.requests < RATE_LIMIT,
      rl |-> [r EXCEPT !.requests = @ + 1]]

\* one call of rateLimiter.canMakeRequest(), with what an observer counts
\* for the limiter's current window
LimiterCall(res) ==
  LET reset == res.rl.lastReset # rateLimiter.lastReset
  IN /\ rateLimiter' = res.rl
     /\ windowCalls' = (IF reset THEN 0 ELSE windowCalls) + 1
     /\ windowGrants' = (IF reset THEN 0 ELSE windowGrants)
                          + (IF res.ok THEN 1 ELSE 0)
     /\ lastResult' = res.ok

\* what an observer notes of the instants of the calls
ObserveCallInstant(res) ==
  LET first == IF firstCallAt = NoTime THEN now ELSE firstCallAt
  IN /\ firstCallAt' = first
     /\ grantsFromFirst' = IF res.ok /\ now - first < WINDOW_MS
                           THEN grantsFromFirst + 1 ELSE grantsFromFirst
     /\ lastCallAt' = now

(***************************************************************************)
(* LRUCache: a JavaScript Map, modelled as the sequence of its entries in  *)
(* insertion order; an entry is [key, data, timestamp, version]             *)
(***************************************************************************)
\* Map.has
MapHas(m, k) == \E i \in 1..Len(m) : m[i].key = k

\* Map.get: the entry stored under k, or undefined
MapGet(m, k) ==
  IF MapHas(m, k)
  THEN LET i == CHOOSE j \in 1..Len(m) : m[j].key = k
       IN [data |-> m[i].data, timestamp |-> m[i].timestamp,
           version |-> m[i].version]
  ELSE Undefined

\* Map.delete
MapDelete(m, k) == SelectSeq(m, LAMBDA x : x.key # k)

\* Map.set: a key already present keeps its place, a new key goes last
MapSet(m, k, e) ==
  LET x == [key |-> k, data |-> e.data, timestamp |-> e.timestamp,
            version |-> e.version]
  IN IF MapHas(m, k)
     THEN [i \in 1..Len(m) |-> IF m[i].key = k THEN x ELSE m[i]]
     ELSE Append(m, x)

\* Map.keys
MapKeys(m) == {m[i].key : i \in 1..Len(m)}

\* truthiness of Array.from(keys)[0]: undefined and the empty string are falsy
FirstKeyTruthy(m) == Len(m) > 0 /\ m[1].key # <<>>

\* get that leaves the entry where it is
LRUGetInPlace(m, key, ver) ==
  LET entry == MapGet(m, key)
  IN IF entry # Undefined /\ entry.version # ver
     THEN [cache |-> MapDelete(m, key), result |-> Undefined]
     ELSE [cache |-> m, result |-> entry]

\* set that evicts the last key of the Map
LRUSetEvictingLast(m, key, value, t, ver) ==
  LET kept == IF Len(m) >= MAX_SIZE /\ FirstKeyTruthy(m)
              THEN MapDelete(m, m[Len(m)].key)
              ELSE m
  IN MapSet(kept, key, [data |-> value, timestamp |-> t, version |-> ver])

\* set that writes a fixed version string instead of the configured one
LRUSetFixedVersion(m, key, value, t, ver) ==
  LET kept == IF Len(m) >= MAX_SIZE /\ FirstKeyTruthy(m)
              THEN MapDelete(m, m[1].key)
              ELSE m
  IN MapSet(kept, key,
            [data |-> value, timestamp |-> t, version |-> Versions[1]])

\* LRUCache.set(key, value) at instant t under configured version ver
LRUSet(m, key, value, t, ver) ==
  LET kept == IF Len(m) >= MAX_SIZE /\ FirstKeyTruthy(m)
              THEN MapDelete(m, m[1].key)
              ELSE m
  IN MapSet(kept, key, [data |-> value, timestamp |-> t, version |-> ver])

\* get without the version check
LRUGetAnyVersion(m, key, ver) ==
  LET entry == MapGet(m, key)
  IN IF entry # Undefined
     THEN [cache |-> MapSet(MapDelete(m, key), key, entry), result |-> entry]
     ELSE [cache |-> m, result |-> entry]

\* LRUCache.get(key) under configured version ver: the Map after, and the
\* value returned
LRUGet(m, key, ver) ==
  LET entry == MapGet(m, key)
  IN IF entry # Undefined /\ entry.version # ver
     THEN [cache |-> MapDelete(m, key), result |-> Undefined]
     ELSE IF entry # Undefined
     THEN [cache |-> MapSet(MapDelete(m, key), key, entry), result |-> entry]
     ELSE [cache |-> m, result |-> entry]

\* LRUCache.clear()
LRUClear(m) == <<>>

\* the key that set deletes from the Map before it stores, if any
EvictedBy(m) ==
  IF Len(m) >= MAX_SIZE /\ FirstKeyTruthy(m)
  THEN [key |-> m[1].key]
  ELSE Undefined

\* the latest operation was not a set
NoSet ==
  [full |-> FALSE, new |-> FALSE, evicted |-> Undefined, eldest |-> Undefined,
   lru |-> Undefined]

\* a key whose entry get has not returned since the entry was created
NoHit ==
  [live |-> FALSE, full |-> FALSE, others |-> {}, touched |-> {},
   disturbed |-> FALSE, newSet |-> FALSE]

(***************************************************************************)
(* ApiCallCounter                                                          *)
(***************************************************************************)
\* localStorage.getItem when nothing is stored
NullItem == [kind |-> "null"]
\* a stored text that JSON.parse rejects
MalformedItem == [kind |-> "malformed"]

\* JSON values under a key of the stored record. A number is given by its
\* floor and the tenths of its fractional part (2.5 is 2 and 5, -2.5 is -3
\* and 5); a date is the ISO string of an instant.
JsonNumber(n, f) == [type |-> "number", floor |-> n, tenths |-> f]
JsonString(text) == [type |-> "string", text |-> text]
JsonDate(t) == [type |-> "date", instant |-> t]
JsonMissing == [type |-> "undefined"]

\* what getMonth and getFullYear of an Invalid Date compare unequal to
InvalidDate == NoTime

\* Number(v) || 0 for a JSON value v: a number stays what it is, a string of
\* digits is its number, and what gives NaN or 0 is 0
NumberOrZero(v) ==
  CASE v.type = "number" -> [count |-> v.floor, fraction |-> v.tenths]
    [] v.type = "string" /\ v.text = "7" -> [count |-> 7, fraction |-> 0]
    [] OTHER -> [count |-> 0, fraction |-> 0]

\* the instant that new Date(v || new Date().toISOString()) denotes at
\* instant t: `undefined` is falsy, a string that is not a date is kept
DateOrNow(v, t) ==
  CASE v.type = "date" -> v.instant
    [] v.type = "undefined" -> t
    [] OTHER -> InvalidDate

\* JSON.stringify(state), as localStorage keeps it
Stringify(st) ==
  [kind |-> "record", count |-> JsonNumber(st.count, st.fraction),
   lastReset |-> JsonDate(st.lastReset)]

\* the calendar month (0..11) and the year of an instant
getMonth(t) == (t \div MonthLength) % 12
getFullYear(t) == 1970 + (t \div MonthLength) \div 12

\* ApiCallCounter.loadState at instant t. The state holds the count as its
\* floor and the tenths of its fraction, and lastReset as the instant the
\* string denotes.
loadState(stored, t) ==
  IF stored.kind = "record"
  THEN [count |-> NumberOrZero(stored.count).count,
        fraction |-> NumberOrZero(stored.count).fraction,
        lastReset |-> DateOrNow(stored.lastReset, t)]
  ELSE [count |-> 0, fraction |-> 0, lastReset |-> t]

\* saveState without its try/catch
saveStateUnguarded(st, stored, fails) ==
  [stored |-> IF fails THEN stored ELSE Stringify(st), threw |-> fails]

\* ApiCallCounter.saveState: the item after, setItem failing or not, and
\* whether saveState threw
saveState(st, stored, fails) ==
  [stored |-> IF fails THEN stored ELSE Stringify(st), threw |-> FALSE]

\* checkAndResetMonthly that compares the months only
checkAndResetMonthlyIgnoringYear(st, stored, t, fails) ==
  IF st.lastReset = InvalidDate \/ getMonth(st.lastReset) # getMonth(t)
  THEN LET fresh == [count |-> 0, fraction |-> 0, lastReset |-> t]
           saved == saveState(fresh, stored, fails)
       IN [state |-> fresh, stored |-> saved.stored, reset |-> TRUE,
           threw |-> saved.threw]
  ELSE [state |-> st, stored |-> stored, reset |-> FALSE, threw |-> FALSE]

\* checkAndResetMonthly that takes an Invalid Date for a date of this month
checkAndResetMonthlySkippingInvalid(st, stored, t, fails) ==
  IF st.lastReset # InvalidDate
       /\ (getMonth(st.lastReset) # getMonth(t)
             \/ getFullYear(st.lastReset) # getFullYear(t))
  THEN LET fresh == [count |-> 0, fraction |-> 0, lastReset |-> t]
           saved == saveState(fresh, stored, fails)
       IN [state |-> fresh, stored |-> saved.stored, reset |-> TRUE,
           threw |-> saved.threw]
  ELSE [state |-> st, stored |-> stored, reset |-> FALSE, threw |-> FALSE]

\* ApiCallCounter.checkAndResetMonthly at instant t: the state and the item
\* after, whether the state was reset, and whether the call threw
checkAndResetMonthly(st, stored, t, fails) ==
  IF st.lastReset = InvalidDate
       \/ getMonth(st.lastReset) # getMonth(t)
       \/ getFullYear(st.lastReset) # getFullYear(t)
  THEN LET fresh == [count |-> 0, fraction |-> 0, lastReset |-> t]
           saved == saveState(fresh, stored, fails)
       IN [state |-> fresh, stored |-> saved.stored, reset |-> TRUE,
           threw |-> saved.threw]
  ELSE [state |-> st, stored |-> stored, reset |-> FALSE, threw |-> FALSE]

\* ApiCallCounter.increment at instant t
increment(st, stored, t, fails) ==
  LET r == checkAndResetMonthly(st, stored, t, fails)
      next == [r.state EXCEPT !.count = @ + 1]
      saved == saveState(next, r.stored, fails)
  IN IF r.threw
     THEN r
     ELSE [state |-> next, stored |-> saved.stored, reset |-> r.reset,
           threw |-> saved.threw]

\* ApiCallCounter.getCount at instant t: what it leaves, and what it returns
getCount(st, stored, t, fails) ==
  LET r == checkAndResetMonthly(st, stored, t, fails)
  IN [state |-> r.state, stored |-> r.stored, reset |-> r.reset,
      threw |-> r.threw,
      value |-> [count |-> r.state.count, fraction |-> r.state.fraction]]

\* a constructor that starts from zero whatever is stored
ApiCallCounterNewFromZero(stored, t, fails) ==
  LET r == checkAndResetMonthly(loadState(NullItem, t), stored, t, fails)
  IN [state |-> r.state, stored |-> r.stored, reset |-> r.reset]

\* new ApiCallCounter() at instant t over the stored item
ApiCallCounterNew(stored, t, fails) ==
  LET r == checkAndResetMonthly(loadState(stored, t), stored, t, fails)
  IN [state |-> r.state, stored |-> r.stored, reset |-> r.reset]

\* apiCounter.increment(): the state is updated and saved
CounterIncrement ==
  LET r == increment(state, storedItem, now, setItemFails)
  IN /\ state' = r.state
     /\ storedItem' = r.stored

(***************************************************************************)
(* fetchApi                                                                *)
(***************************************************************************)
RECURSIVE Pow2(_)
Pow2(n) == IF n = 0 THEN 1 ELSE 2 * Pow2(n - 1)

\* a delay that does not grow
getRetryDelayFlat(a) == baseDelay

\* getRetryDelay
getRetryDelay(a) == Min(baseDelay * Pow2(a), RETRY_CAP)

\* String.includes, for a message given as its words
Includes(message, word) == \E i \in 1..Len(message) : message[i] = word

Err(name, message) == [ok |-> FALSE, name |-> name, message |-> message]
NoResult == [ok |-> FALSE, name |-> "", message |-> <<>>]

\* a caller that has not called fetchApi
IdleCall ==
  [pc |-> "idle", admitted |-> FALSE, attempt |-> 0, timeoutAt |-> NoTime,
   retryAt |-> NoTime, lastError |-> NoResult, result |-> NoResult,
   attempts |-> 0, increments |-> 0, delays |-> <<>>, aborts |-> 0]

\* loop body that counts every attempt
AttemptBeginsCountingAll(p, c, a) ==
  /\ calls' = [calls EXCEPT ![p] =
                 [c EXCEPT !.pc = "fetching", !.attempt = a,
                           !.timeoutAt = now + TIMEOUT, !.retryAt = NoTime,
                           !.attempts = @ + 1, !.increments = @ + 1]]
  /\ CounterIncrement

\* the loop body up to `await fetch(...)` for attempt a of the call c of p:
\* the timeout timer is armed, the first attempt increments the counter, and
\* the request is issued
AttemptBegins(p, c, a) ==
  /\ calls' = [calls EXCEPT ![p] =
                 [c EXCEPT !.pc = "fetching", !.attempt = a,
                           !.timeoutAt = now + TIMEOUT, !.retryAt = NoTime,
                           !.attempts = @ + 1,
                           !.increments = IF a = 0 THEN @ + 1 ELSE @]]
  /\ IF a = 0 THEN CounterIncrement ELSE UNCHANGED counterVars

\* a catch block that gives up one attempt early
CatchGivesUpEarly(c, err, t) ==
  LET failed == [c EXCEPT !.lastError = err, !.timeoutAt = NoTime,
                          !.aborts = IF err.name = "AbortError" THEN @ + 1 ELSE @]
  IN IF err.name # "AbortError" /\ ~Includes(err.message, "network")
     THEN [failed EXCEPT !.pc = "thrown", !.result = err]
     ELSE IF c.attempt + 1 = maxRetries
     THEN [failed EXCEPT !.pc = "thrown",
                         !.result = Err("Error", MSG_NETWORK_ERROR)]
     ELSE [failed EXCEPT !.pc = "backoff",
                         !.retryAt = t + getRetryDelay(c.attempt),
                         !.delays = Append(@, getRetryDelay(c.attempt))]

\* a catch block that retries whatever the error
CatchRetryingAll(c, err, t) ==
  LET failed == [c EXCEPT !.lastError = err, !.timeoutAt = NoTime,
                          !.aborts = IF err.name = "AbortError" THEN @ + 1 ELSE @]
  IN IF c.attempt = maxRetries
     THEN [failed EXCEPT !.pc = "thrown",
                         !.result = Err("Error", MSG_NETWORK_ERROR)]
     ELSE [failed EXCEPT !.pc = "backoff",
                         !.retryAt = t + getRetryDelay(c.attempt),
                         !.delays = Append(@, getRetryDelay(c.attempt))]

\* the catch block of the loop, entered with error err at instant t. The
\* timeout timer of an attempt that failed otherwise than by its timeout is
\* left armed by the code; when it fires it aborts a request that is over,
\* which has no effect, so the model disarms it here.
Catch(c, err, t) ==
  LET failed == [c EXCEPT !.lastError = err, !.timeoutAt = NoTime,
                          !.aborts = IF err.name = "AbortError" THEN @ + 1 ELSE @]
  IN IF err.name # "AbortError" /\ ~Includes(err.message, "network")
     THEN [failed EXCEPT !.pc = "thrown", !.result = err]
     ELSE IF c.attempt = maxRetries
     THEN [failed EXCEPT !.pc = "thrown",
                         !.result = Err("Error", MSG_NETWORK_ERROR)]
     ELSE [failed EXCEPT !.pc = "backoff",
                         !.retryAt = t + getRetryDelay(c.attempt),
                         !.delays = Append(@, getRetryDelay(c.attempt))]

Settled(c) == c.pc \in {"returned", "thrown"}

\* what an observer counts when the limiter admits a call
ObserveAdmission ==
  admittedInMonth' =
    IF admittedInMonth.month = now \div MonthLength
    THEN [admittedInMonth EXCEPT !.calls = @ + 1]
    ELSE [month |-> now \div MonthLength, calls |-> 1]

\* fetchApi that goes on when the limiter is saturated
fetchApiIgnoringLimiter(p) ==
  LET res == canMakeRequest(rateLimiter, now)
      reset == res.rl.lastReset # rateLimiter.lastReset
      inWindow == IF reset THEN 0 ELSE attemptsInWindow
  IN /\ calls[p].pc = "idle" \/ Settled(calls[p])
     /\ callsStarted < MaxCalls
     /\ callsStarted' = callsStarted + 1
     /\ LimiterCall(res)
     /\ AttemptBegins(p, [IdleCall EXCEPT !.admitted = res.ok], 0)
     /\ attemptsInWindow' = inWindow + 1
     /\ ObserveAdmission
     /\ UNCHANGED <<clockVars, rlInstantVars, cacheVars>>

\* fetchApi that counts the calls the limiter refuses as well
fetchApiCountingRefused(p) ==
  LET res == canMakeRequest(rateLimiter, now)
      reset == res.rl.lastReset # rateLimiter.lastReset
      inWindow == IF reset THEN 0 ELSE attemptsInWindow
  IN /\ calls[p].pc = "idle" \/ Settled(calls[p])
     /\ callsStarted < MaxCalls
     /\ callsStarted' = callsStarted + 1
     /\ LimiterCall(res)
     /\ IF res.ok
        THEN /\ AttemptBegins(p, [IdleCall EXCEPT !.admitted = TRUE], 0)
             /\ attemptsInWindow' = inWindow + 1
             /\ ObserveAdmission
        ELSE /\ calls' = [calls EXCEPT ![p] =
                            [IdleCall EXCEPT !.pc = "thrown",
                                             !.result = Err("Error", MSG_RATE_LIMIT)]]
             /\ attemptsInWindow' = inWindow
             /\ CounterIncrement
             /\ UNCHANGED admittedInMonth
     /\ UNCHANGED <<clockVars, rlInstantVars, cacheVars>>

\* fetchApi is called: the limiter is consulted and, if it admits the call,
\* the first attempt is started
fetchApi(p) ==
  LET res == canMakeRequest(rateLimiter, now)
      reset == res.rl.lastReset # rateLimiter.lastReset
      inWindow == IF reset THEN 0 ELSE attemptsInWindow
  IN /\ calls[p].pc = "idle" \/ Settled(calls[p])
     /\ callsStarted < MaxCalls
     /\ callsStarted' = callsStarted + 1
     /\ LimiterCall(res)
     /\ IF res.ok
        THEN /\ AttemptBegins(p, [IdleCall EXCEPT !.admitted = TRUE], 0)
             /\ attemptsInWindow' = inWindow + 1
             /\ ObserveAdmission
        ELSE /\ calls' = [calls EXCEPT ![p] =
                            [IdleCall EXCEPT !.pc = "thrown",
                                             !.result = Err("Error", MSG_RATE_LIMIT)]]
             /\ attemptsInWindow' = inWindow
             /\ UNCHANGED <<counterVars, admittedInMonth>>
     /\ UNCHANGED <<clockVars, rlInstantVars, cacheVars>>

\* fetchApi called on its own
FetchApiCall(p) == fetchApi(p) /\ UNCHANGED outerVars

\* fetch() is rejected with a TypeError
FetchRejects(p) ==
  \E m \in NetworkFailureMessages :
    /\ calls[p].pc = "fetching"
    /\ calls' = [calls EXCEPT ![p] = Catch(@, Err("TypeError", m), now)]
    /\ UNCHANGED <<clockVars, rlVars, rlInstantVars, cacheVars, counterVars, callsStarted,
                   attemptsInWindow, admittedInMonth,
                 outerVars>>

\* the timeout timer of the attempt fires: controller.abort() rejects the
\* pending fetch() with an AbortError
TimeoutFires(p) ==
  /\ calls[p].pc = "fetching"
  /\ calls[p].timeoutAt # NoTime
  /\ now >= calls[p].timeoutAt
  /\ calls' = [calls EXCEPT ![p] = Catch(@, Err("AbortError", MSG_ABORT), now)]
  /\ UNCHANGED <<clockVars, rlVars, rlInstantVars, cacheVars, counterVars, callsStarted,
                 attemptsInWindow, admittedInMonth,
                 outerVars>>

\* fetch() resolves with the response headers; clearTimeout(timeoutId)
ResponseArrives(p) ==
  \E ok \in BOOLEAN :
    /\ calls[p].pc = "fetching"
    /\ calls' = [calls EXCEPT ![p].pc = IF ok THEN "body" ELSE "errorBody",
                              ![p].timeoutAt = NoTime]
    /\ UNCHANGED <<clockVars, rlVars, rlInstantVars, cacheVars, counterVars, callsStarted,
                   attemptsInWindow, admittedInMonth,
                 outerVars>>

\* response.json() of a 2xx response resolves: fetchApi returns the data
BodyParsed(p) ==
  \E d \in Payloads :
    /\ calls[p].pc = "body"
    /\ calls' = [calls EXCEPT ![p].pc = "returned",
                              ![p].result = [ok |-> TRUE, data |-> d]]
    /\ UNCHANGED <<clockVars, rlVars, rlInstantVars, cacheVars, counterVars, callsStarted,
                   attemptsInWindow, admittedInMonth,
                 outerVars>>

\* response.json() of a non-2xx response resolves: the provider's message, or
\* the label and status when there is none, is thrown
ErrorBodyParsed(p) ==
  \E m \in ProviderMessages \cup {<<>>} :
    /\ calls[p].pc = "errorBody"
    /\ calls' = [calls EXCEPT ![p] =
                   Catch(@, Err("Error", IF m # <<>> THEN m ELSE MSG_LABEL_STATUS),
                         now)]
    /\ UNCHANGED <<clockVars, rlVars, rlInstantVars, cacheVars, counterVars, callsStarted,
                   attemptsInWindow, admittedInMonth,
                 outerVars>>

\* response.json() is rejected: the body is not JSON (SyntaxError) or the
\* connection broke while it was read (TypeError)
BodyFails(p) ==
  \E e \in {Err("SyntaxError", MSG_SYNTAX)}
             \cup {Err("TypeError", m) : m \in NetworkFailureMessages} :
    /\ calls[p].pc \in {"body", "errorBody"}
    /\ calls' = [calls EXCEPT ![p] = Catch(@, e, now)]
    /\ UNCHANGED <<clockVars, rlVars, rlInstantVars, cacheVars, counterVars, callsStarted,
                   attemptsInWindow, admittedInMonth,
                 outerVars>>

\* the backoff timer fires: the loop goes on with the next attempt
BackoffEnds(p) ==
  /\ calls[p].pc = "backoff"
  /\ now >= calls[p].retryAt
  /\ AttemptBegins(p, calls[p], calls[p].attempt + 1)
  /\ attemptsInWindow' = attemptsInWindow + 1
  /\ UNCHANGED <<clockVars, rlVars, rlInstantVars, cacheVars, callsStarted,
                 admittedInMonth,
                 outerVars>>

(***************************************************************************)
(* The service operations: searchCities, getWeatherData, getForecastData   *)
(***************************************************************************)
IsWhiteSpace(ch) == ch = " "

\* String.trim
trim(s) ==
  LET kept == {i \in 1..Len(s) : ~IsWhiteSpace(s[i])}
  IN IF kept = {}
     THEN <<>>
     ELSE SubSeq(s, CHOOSE i \in kept : \A j \in kept : i <= j,
                    CHOOSE i \in kept : \A j \in kept : i >= j)

LowerCaseOf(ch) == CASE ch = "A" -> "a" [] ch = "B" -> "b" [] OTHER -> ch

\* String.toLowerCase
toLowerCase(s) == [i \in 1..Len(s) |-> LowerCaseOf(s[i])]

IsLoneSurrogate(ch) == ch = "<D800>"

RECURSIVE EncodeAll(_)
EncodeAll(s) ==
  IF s = <<>>
  THEN <<>>
  ELSE (IF Head(s) = " " THEN <<"%", "2", "0">> ELSE <<Head(s)>>)
         \o EncodeAll(Tail(s))

\* encodeURIComponent: the encoded string, or not ok when it throws a
\* URIError (the string holds a surrogate without its pair)
encodeURIComponent(s) ==
  IF \E i \in 1..Len(s) : IsLoneSurrogate(s[i])
  THEN [ok |-> FALSE, value |-> <<>>]
  ELSE [ok |-> TRUE, value |-> EncodeAll(s)]

\* sanitizeInput that keeps the letter case
sanitizeInputKeepingCase(input) ==
  IF input = <<>>
  THEN [ok |-> TRUE, value |-> <<>>]
  ELSE encodeURIComponent(trim(input))

\* sanitizeInput
sanitizeInput(input) ==
  IF input = <<>>
  THEN [ok |-> TRUE, value |-> <<>>]
  ELSE encodeURIComponent(toLowerCase(trim(input)))

\* a key check that lets every key pass
validateApiKeyLenient(key) == TRUE

\* validateApiKey: TRUE when it returns, FALSE when it throws
validateApiKey(key) == key # <<>>

\* a validity test that ignores the age of the entry
isCacheValidForever(timestamp, t) == TRUE

\* a validity test that no entry passes
isCacheValidNever(timestamp, t) == FALSE

\* isCacheValid at instant t
isCacheValid(timestamp, t) == t - timestamp < CACHE_DURATION

\* a guard that only looks at the trimmed query
QueryRejectedOnlyWhenBlank(query) == trim(query) = <<>>

\* the guard of searchCities: the query is answered with the empty list
QueryRejected(query) ==
  trim(query) = <<>> \/ Len(query) < MIN_QUERY_LENGTH

\* a guard that only refuses the empty string
CityRejectedOnlyWhenEmpty(city) == city = <<>>

\* the guard of getWeatherData and getForecastData: the city is refused
CityRejected(city) == trim(city) = <<>>

\* the key under which an operation caches its result; the prefix is one
\* element of the sequence
cacheKey(kind, sanitized) ==
  CASE kind = "searchCities" -> sanitized
    [] kind = "getWeatherData" -> <<"weather_">> \o sanitized
    [] kind = "getForecastData" -> <<"forecast_">> \o sanitized

\* a test that stops at the days of the forecast
HasForecastDays(d) ==
  /\ d.forecast # Undefined
  /\ d.forecast.forecastday # Undefined
  /\ Len(d.forecast.forecastday.items) > 0

\* data.forecast?.forecastday?.[0]?.hour is truthy
HasHourlyForecast(d) ==
  /\ d.forecast # Undefined
  /\ d.forecast.forecastday # Undefined
  /\ Len(d.forecast.forecastday.items) > 0
  /\ d.forecast.forecastday.items[1].hour # Undefined

\* rounding towards zero
MathRoundTruncating(n, d) == IF n >= 0 THEN n \div d ELSE 0 - ((0 - n) \div d)

\* Math.round(n / d) for an exact quotient, d > 0: the nearest integer, a
\* half going up
MathRound(n, d) == (2 * n + d) \div (2 * d)

\* wind_kph values, in tenths and up to MaxWindTenths + 1, whose quotient by
\* 3.6 is a half-integer exactly but whose double-precision quotient falls
\* just below it (23.4 / 3.6 is 6.499999999999999)
DoubleQuotientBelowHalf == {234}

\* Math.round(wind_kph / 3.6) in double precision, wind_kph in tenths
RoundedWindSpeed(w) ==
  IF w \in DoubleQuotientBelowHalf
  THEN MathRound(w, 36) - 1
  ELSE MathRound(w, 36)

\* the WeatherData that getWeatherData builds from the provider's payload
TransformWeather(d) ==
  [kind |-> "weather",
   temp |-> MathRound(d.temp_c, 10),
   feels_like |-> MathRound(d.feelslike_c, 10),
   temp_min |-> MathRound(d.temp_c, 10),
   temp_max |-> MathRound(d.temp_c, 10),
   speed |-> RoundedWindSpeed(d.wind_kph)]

\* the ForecastData that getForecastData builds from the provider's payload
TransformForecast(d) ==
  LET days == d.forecast.forecastday.items
  IN [kind |-> "forecast",
      list |-> [items |->
                 [i \in 1..Len(days) |->
                    [temp |-> MathRound(days[i].avgtemp_c, 10),
                     feels_like |-> MathRound(days[i].avgtemp_c, 10),
                     temp_min |-> MathRound(days[i].mintemp_c, 10),
                     temp_max |-> MathRound(days[i].maxtemp_c, 10),
                     dt_txt |-> days[i].date]]],
      forecast |->
        [forecastday |->
           [items |-> [i \in 1..Len(days) |->
                         [date |-> days[i].date, hour |-> days[i].hour]]]]]

Ok(data) == [ok |-> TRUE, data |-> data]

\* a caller that has not called an operation
IdleOp ==
  [pc |-> "idle", kind |-> "", input |-> <<>>, key |-> <<>>, hit |-> FALSE,
   result |-> NoResult]

NoCached == [query |-> <<>>, data |-> EmptyList, at |-> NoTime]
NoSample == [given |-> FALSE]

\* the cache an operation uses
CacheOf(kind) == IF kind = "searchCities" THEN cityCache ELSE weatherCache

SetCacheOf(kind, m) ==
  IF kind = "searchCities"
  THEN cityCache' = m /\ UNCHANGED weatherCache
  ELSE weatherCache' = m /\ UNCHANGED cityCache

\* an operation is called: it runs up to its first await, which is the
\* `await fetch(...)` of fetchApi when it gets that far
ServiceCall(p) ==
  \E kind \in Operations, input \in Queries :
    LET o == [IdleOp EXCEPT !.kind = kind, !.input = input]
        sanitized == sanitizeInput(input)
        key == cacheKey(kind, sanitized.value)
        r == LRUGet(CacheOf(kind), key, cacheVersion)
        leaves(pc, result) ==
          /\ op' = [op EXCEPT ![p] = [o EXCEPT !.pc = pc, !.result = result]]
          /\ UNCHANGED <<cityCache, weatherCache>>
          /\ UNCHANGED <<clockVars, rlVars, rlInstantVars, cacheVars,
                         counterVars, fetchVars>>
    IN /\ op[p].pc \in {"idle", "returned", "thrown"}
       /\ serviceCalls < MaxServiceCalls
       /\ serviceCalls' = serviceCalls + 1
       /\ UNCHANGED <<apiKey, lastCached, roundVars, laterVars>>
       /\ IF kind = "searchCities" /\ QueryRejected(input)
          THEN leaves("returned", Ok(EmptyList))
          ELSE IF kind # "searchCities" /\ CityRejected(input)
          THEN leaves("thrown", Err("Error", MSG_EMPTY_CITY))
          ELSE IF ~validateApiKey(apiKey)
          THEN leaves("thrown", Err("Error", MSG_API_KEY_MISSING))
          ELSE IF ~sanitized.ok
          THEN leaves("thrown", Err("URIError", MSG_URI_MALFORMED))
          ELSE /\ SetCacheOf(kind, r.cache)
               /\ IF r.result # Undefined
                       /\ isCacheValid(r.result.timestamp, now)
                  THEN /\ op' = [op EXCEPT ![p] =
                                   [o EXCEPT !.pc = "returned", !.key = key,
                                             !.hit = TRUE,
                                             !.result = Ok(r.result.data)]]
                       /\ UNCHANGED <<clockVars, rlVars, rlInstantVars,
                                      cacheVars, counterVars, fetchVars>>
                  ELSE /\ op' = [op EXCEPT ![p] =
                                   [o EXCEPT !.pc = "awaiting", !.key = key]]
                       /\ fetchApi(p)

\* searchCities that caches the empty list it answers a failure with
ServiceResumesCachingFailure(p) ==
  LET o == op[p]
      c == calls[p]
      d == c.result.data
      settles(pc, result) ==
        op' = [op EXCEPT ![p] = [o EXCEPT !.pc = pc, !.result = result]]
      stores(data) ==
        /\ SetCacheOf(o.kind, LRUSet(CacheOf(o.kind), o.key, data, now,
                                     cacheVersion))
        /\ settles("returned", Ok(data))
  IN /\ o.pc = "awaiting"
     /\ Settled(c)
     /\ IF c.pc = "thrown"
        THEN IF o.kind = "searchCities"
             THEN /\ stores(EmptyList)
                  /\ UNCHANGED lastCached
             ELSE /\ settles("thrown", c.result)
                  /\ UNCHANGED <<cityCache, weatherCache, lastCached>>
        ELSE IF o.kind = "searchCities"
        THEN /\ stores(d)
             /\ lastCached' = [query |-> o.input, data |-> d, at |-> now]
        ELSE IF o.kind = "getWeatherData"
        THEN /\ stores(TransformWeather(d))
             /\ UNCHANGED lastCached
        ELSE IF ~HasHourlyForecast(d)
        THEN /\ settles("thrown", Err("Error", MSG_INVALID_FORECAST))
             /\ UNCHANGED <<cityCache, weatherCache, lastCached>>
        ELSE /\ stores(TransformForecast(d))
             /\ UNCHANGED lastCached
     /\ calls' = [calls EXCEPT ![p] = IdleCall]
     /\ UNCHANGED <<clockVars, rlVars, rlInstantVars, cacheVars, counterVars,
                    callsStarted, attemptsInWindow, admittedInMonth, apiKey,
                    serviceCalls, roundVars, laterVars>>

\* fetchApi has settled: the operation goes on after its await, and the
\* settled call of fetchApi is no more
ServiceResumes(p) ==
  LET o == op[p]
      c == calls[p]
      d == c.result.data
      settles(pc, result) ==
        op' = [op EXCEPT ![p] = [o EXCEPT !.pc = pc, !.result = result]]
      stores(data) ==
        /\ SetCacheOf(o.kind, LRUSet(CacheOf(o.kind), o.key, data, now,
                                     cacheVersion))
        /\ settles("returned", Ok(data))
  IN /\ o.pc = "awaiting"
     /\ Settled(c)
     /\ IF c.pc = "thrown"
        THEN /\ IF o.kind = "searchCities"
                THEN settles("returned", Ok(EmptyList))
                ELSE settles("thrown", c.result)
             /\ UNCHANGED <<cityCache, weatherCache, lastCached>>
        ELSE IF o.kind = "searchCities"
        THEN /\ stores(d)
             /\ lastCached' = [query |-> o.input, data |-> d, at |-> now]
        ELSE IF o.kind = "getWeatherData"
        THEN /\ stores(TransformWeather(d))
             /\ UNCHANGED lastCached
        ELSE IF ~HasHourlyForecast(d)
        THEN /\ settles("thrown", Err("Error", MSG_INVALID_FORECAST))
             /\ UNCHANGED <<cityCache, weatherCache, lastCached>>
        ELSE /\ stores(TransformForecast(d))
             /\ UNCHANGED lastCached
     /\ calls' = [calls EXCEPT ![p] = IdleCall]
     /\ UNCHANGED <<clockVars, rlVars, rlInstantVars, cacheVars, counterVars,
                    callsStarted, attemptsInWindow, admittedInMonth, apiKey,
                    serviceCalls, roundVars, laterVars>>

(***************************************************************************)
(* Clock                                                                   *)
(***************************************************************************)
\* time passes by one of the given steps
Tick(steps, horizon) ==
  \E d \in steps :
    /\ now + d <= horizon
    /\ now' = now + d

\* a process lifetime begins at instant t: what the observer notes of the
\* counter that is constructed, saved telling whether no save has failed
NewInstance(id, t, saved) ==
  [id |-> id, born |-> t \div MonthLength, allSaved |-> saved,
   lastIncMonth |-> NoTime]

\* an operation of the service as the component awaits it: its promise
NoOp == [pc |-> "none", key |-> <<>>, result |-> NoResult, late |-> FALSE]
\* a call of handleSearch that has not been made
NoSearch == [pc |-> "none", term |-> <<>>, weather |-> NoOp, forecast |-> NoOp]

NotSeen == [valid |-> FALSE, month |-> 0, value |-> 0]

\* the module apiCounter is loaded at instant 0 over the stored item
InitCounter(item) ==
  /\ state = ApiCallCounterNew(item, 0, FALSE).state
  /\ storedItem = ApiCallCounterNew(item, 0, FALSE).stored
  /\ setItemFails = FALSE
  /\ instance = NewInstance(1, 0, TRUE)
  /\ counterLog = [op |-> "new"]
  /\ seen = NotSeen
  /\ counterCalls = 0

\* the modules of api.ts are loaded at instant 0
InitApi ==
  /\ now = 0
  /\ rateLimiter = RateLimiterNew(0)
  /\ firstCallAt = NoTime
  /\ grantsFromFirst = 0
  /\ windowCalls = 0
  /\ windowGrants = 0
  /\ lastCallAt = NoTime
  /\ lastResult = FALSE
  /\ cacheVersion = Versions[1]
  /\ cache = <<>>
  /\ cacheLastOp = [op |-> "new"]
  /\ setRun = EmptyRun
  /\ insertOrder = <<>>
  /\ useOrder = <<>>
  /\ lastSet = NoSet
  /\ hits = [k \in Keys |-> NoHit]
  /\ calls = [p \in Callers |-> IdleCall]
  /\ callsStarted = 0
  /\ attemptsInWindow = 0
  /\ admittedInMonth = [month |-> 0, calls |-> 0]
  /\ apiKey \in ApiKeys
  /\ cityCache = <<>>
  /\ weatherCache = <<>>
  /\ op = [p \in Procs |-> IdleOp]
  /\ serviceCalls = 0
  /\ lastCached = NoCached
  /\ sample = NoSample
  /\ ui = [city |-> <<>>, suggestions |-> <<>>, showSuggestions |-> FALSE,
           weather |-> Null, forecast |-> Null, loading |-> FALSE,
           error |-> Null]
  /\ refs = [debounce |-> FALSE, searchTimeout |-> FALSE, controller |-> 0,
             aborted |-> {}]
  /\ lookup = NoOp
  /\ lookupsStarted = 0
  /\ searches = [id \in 1..MaxSearches |-> NoSearch]
  /\ searchesStarted = 0
  /\ grantTimes = <<>>

Init == InitApi /\ InitCounter(NullItem)

(***************************************************************************)
(* The rate limiter alone, called at arbitrary instants                    *)
(***************************************************************************)
\* half a window, and half a window and a second: the clock reaches the end of
\* a window exactly (60000) and passes it (61000)
LimiterSteps == {WINDOW_MS \div 2, WINDOW_MS \div 2 + baseDelay}

LimiterTick ==
  /\ Tick(LimiterSteps, MaxTime)
  /\ UNCHANGED <<rlVars, rlInstantVars, cacheVars, counterVars, fetchVars,
                 outerVars>>

CallCanMakeRequest ==
  /\ rateLimiter.requests < RATE_LIMIT + MaxOver
     \/ now - rateLimiter.lastReset > WINDOW_MS
  /\ LimiterCall(canMakeRequest(rateLimiter, now))
  /\ ObserveCallInstant(canMakeRequest(rateLimiter, now))
  /\ UNCHANGED <<clockVars, cacheVars, counterVars, fetchVars,
                 outerVars>>

LimiterNext == LimiterTick \/ CallCanMakeRequest

SpecLimiter == Init /\ [][LimiterNext]_vars

\* C1 (as stated): within the 60 seconds that start at the first call,
\* canMakeRequest answers true at most RATE_LIMIT times.
C1_TrueAtMostLimitFromFirstCall ==
  grantsFromFirst <= RATE_LIMIT

\* C1 (amended): in every window of the limiter, which starts at construction
\* or at the call that reset it, the first RATE_LIMIT calls are answered true
\* and every further call false; every call of a window is made at most 60 s
\* after the window started.
C1_TrueExactlyLimitPerLimiterWindow ==
  /\ windowGrants = Min(windowCalls, RATE_LIMIT)
  /\ windowCalls > 0 =>
       /\ lastResult = (windowCalls <= RATE_LIMIT)
       /\ lastCallAt - rateLimiter.lastReset <= WINDOW_MS
       /\ lastCallAt >= rateLimiter.lastReset

\* a window opened by a reset is saturated and a further call was refused
C1_Witness ==
  /\ rateLimiter.lastReset > 0
  /\ windowCalls > RATE_LIMIT
  /\ windowGrants = RATE_LIMIT
  /\ lastResult = FALSE

(***************************************************************************)
(* One cache alone, under arbitrary calls of set, get and clear            *)
(***************************************************************************)
\* the clock jumps by the lifetime of an entry, once: entries are met within
\* their lifetime and past it
CacheSteps == {CACHE_DURATION}

CacheTick ==
  /\ Tick(CacheSteps, CACHE_DURATION)
  /\ UNCHANGED <<rlVars, rlInstantVars, cacheVars, counterVars, fetchVars,
                 outerVars>>

CacheSet ==
  \E k \in Keys, v \in Values :
    /\ cache' = LRUSet(cache, k, v, now, cacheVersion)
    /\ cacheLastOp' = [op |-> "set", key |-> k, value |-> v]
    /\ setRun' = IF setRun.pure /\ Len(setRun.keys) <= MAX_SIZE
                 THEN [setRun EXCEPT !.keys = Append(@, k)]
                 ELSE NoRun
    /\ UNCHANGED <<cacheVersion, clockVars, rlVars, rlInstantVars,
                 counterVars, fetchVars,
                 outerVars, lruVars>>

\* get(k); the observer notes what the Map held under k, what get returned,
\* and the value of a set(k, v) that came immediately before
CacheGet ==
  \E k \in Keys :
    LET r == LRUGet(cache, k, cacheVersion)
        found == MapGet(cache, k)
    IN /\ cache' = r.cache
       /\ cacheLastOp' =
            [op |-> "get", key |-> k,
             hit |-> r.result # Undefined,
             data |-> IF r.result # Undefined THEN r.result.data ELSE "",
             otherVersion |-> found # Undefined /\ found.version # cacheVersion,
             expired |-> found # Undefined
                           /\ now - found.timestamp >= CACHE_DURATION,
             justSet |-> IF cacheLastOp.op = "set" /\ cacheLastOp.key = k
                         THEN cacheLastOp.value ELSE ""]
       /\ setRun' = NoRun
       /\ UNCHANGED <<cacheVersion, clockVars, rlVars, rlInstantVars,
                 counterVars, fetchVars,
                 outerVars, lruVars>>

CacheClear ==
  /\ cache' = LRUClear(cache)
  /\ cacheLastOp' = [op |-> "clear"]
  /\ setRun' = EmptyRun
  /\ UNCHANGED <<cacheVersion, clockVars, rlVars, rlInstantVars,
                 counterVars, fetchVars,
                 outerVars, lruVars>>

\* a release changes CONFIG.CACHE.VERSION
ChangeVersion ==
  /\ cacheVersion = Versions[1]
  /\ cacheVersion' = Versions[2]
  /\ cacheLastOp' = [op |-> "version"]
  /\ UNCHANGED <<cache, setRun, clockVars, rlVars, rlInstantVars,
                 counterVars, fetchVars,
                 outerVars, lruVars>>

CacheNext == CacheTick \/ CacheSet \/ CacheGet \/ CacheClear \/ ChangeVersion

SpecCache == Init /\ [][CacheNext]_vars

\* C8: a get(k) that immediately follows set(k, v), the configured version
\* being the same for both, returns an entry whose data is v.
C8_GetAfterSetReturnsValue ==
  (cacheLastOp.op = "get" /\ cacheLastOp.justSet # "")
    => (cacheLastOp.hit /\ cacheLastOp.data = cacheLastOp.justSet)

\* a get right after a set that replaced the value of a key of a full cache,
\* under the later version
C8_Witness ==
  /\ cacheLastOp.op = "get"
  /\ cacheLastOp.justSet = "v2"
  /\ cacheLastOp.data = "v2"
  /\ cacheVersion = Versions[2]
  /\ Len(cache) = MAX_SIZE

\* C9: a get(k) that finds an entry stored under another version than the
\* configured one reports absent, whatever the age of the entry, and the
\* entry is gone from the cache afterwards.
C9_OtherVersionIsAbsentAndRemoved ==
  (cacheLastOp.op = "get" /\ cacheLastOp.otherVersion)
    => (~cacheLastOp.hit /\ ~MapHas(cache, cacheLastOp.key))

\* such a get on an entry that is still within its lifetime
C9_Witness ==
  /\ cacheLastOp.op = "get"
  /\ cacheLastOp.otherVersion
  /\ ~cacheLastOp.expired
  /\ ~cacheLastOp.hit

\* the keys given to set since the cache was empty are MAX_SIZE + 1 distinct
\* keys, and nothing but set was called
FilledByOneMore ==
  /\ setRun.pure
  /\ Len(setRun.keys) = MAX_SIZE + 1
  /\ \A i, j \in 1..Len(setRun.keys) :
       setRun.keys[i] = setRun.keys[j] => i = j

Deadlines ==
  {calls[p].timeoutAt : p \in {q \in Procs : calls[q].pc = "fetching"}}
    \cup {calls[p].retryAt : p \in {q \in Procs : calls[q].pc = "backoff"}}

\* the clock moves to the deadline of an armed timer, or past the end of a
\* limiter window
FetchTick ==
  /\ \E t \in {d \in Deadlines : d > now}
               \cup {t \in {now + WINDOW_MS + baseDelay} : t <= MaxTime} :
       now' = t
  /\ UNCHANGED <<rlVars, rlInstantVars, cacheVars, counterVars, fetchVars,
                 outerVars>>

FetchNext ==
  \/ FetchTick
  \/ \E p \in Procs :
       \/ FetchApiCall(p)
       \/ FetchRejects(p)
       \/ TimeoutFires(p)
       \/ ResponseArrives(p)
       \/ BodyParsed(p)
       \/ ErrorBodyParsed(p)
       \/ BodyFails(p)
       \/ BackoffEnds(p)

Spec == Init /\ [][FetchNext]_vars

\* timers fire once they are due and the clock does not stop while one is
\* armed; nothing is assumed of the network
FairSpec ==
  /\ Spec
  /\ WF_vars(FetchTick)
  /\ \A p \in Procs : WF_vars(TimeoutFires(p)) /\ WF_vars(BackoffEnds(p))

\* C2: the fetch() requests issued within one window of the limiter, first
\* attempts and retries alike, never number more than RATE_LIMIT.
C2_AttemptsPerWindowBounded ==
  attemptsInWindow <= RATE_LIMIT

\* the call of a caller the limiter has just refused
RejectedCall ==
  [IdleCall EXCEPT !.pc = "thrown", !.result = Err("Error", MSG_RATE_LIMIT)]

\* C3: a call of fetchApi that the limiter refuses fails in that same step
\* with the rate-limit error: no request is issued, no timer is armed, and the
\* usage counter, its stored record and the cache are left as they were.
C3_SaturatedCallFailsAtOnce ==
  [][(callsStarted' = callsStarted + 1 /\ ~lastResult')
       => /\ \E p \in Procs : calls' = [calls EXCEPT ![p] = RejectedCall]
          /\ RejectedCall.attempts = 0 /\ RejectedCall.delays = <<>>
          /\ RejectedCall.timeoutAt = NoTime /\ RejectedCall.retryAt = NoTime
          /\ UNCHANGED <<state, storedItem, attemptsInWindow, cacheVars, now>>]_vars

\* the limiter is saturated and has refused the latest call
C3_Witness ==
  /\ ~lastResult
  /\ windowCalls > RATE_LIMIT
  /\ state.count = RATE_LIMIT
  /\ \E p \in Procs : calls[p] = RejectedCall

\* C4: a call admitted by the limiter increments the usage counter exactly
\* once, whatever the number of its attempts: the count is the number of calls
\* admitted during the month.
C4_AdmittedCallCountsOnce ==
  /\ \A p \in Procs :
       calls[p].admitted =>
         /\ calls[p].increments = 1
         /\ calls[p].attempts \in 1..(maxRetries + 1)
  /\ admittedInMonth.calls > 0 => state.count = admittedInMonth.calls

\* a second admitted call has made all its attempts
C4_Witness ==
  /\ state.count = 2
  /\ \E p \in Procs :
       /\ calls[p].pc = "thrown"
       /\ calls[p].attempts = maxRetries + 1
       /\ calls[p].increments = 1

\* the latest attempt of the call was answered by a non-2xx response whose
\* body carried an error message of the provider
FailedWithProviderMessage(c) ==
  /\ c.lastError.name = "Error"
  /\ c.lastError.message \in ProviderMessages

\* C5: an attempt answered by a non-2xx response carrying a provider message
\* ends the call: it is not retried (one attempt in all when it is the first)
\* and the error raised has the provider's message.
C5_ProviderErrorNotRetried ==
  \A p \in Procs :
    FailedWithProviderMessage(calls[p]) =>
      /\ calls[p].pc = "thrown"
      /\ calls[p].result.message = calls[p].lastError.message
      /\ calls[p].attempts = calls[p].attempt + 1

\* C6: a call makes at most maxRetries + 1 attempts, and one whose attempts
\* were all aborted by their timeout makes exactly that many and then fails
\* with ERROR_MESSAGES.NETWORK_ERROR.
C6_AllTimeoutsThreeAttempts ==
  \A p \in Procs :
    /\ calls[p].attempts <= maxRetries + 1
    /\ (Settled(calls[p]) /\ calls[p].attempts > 0
          /\ calls[p].aborts = calls[p].attempts)
         => /\ calls[p].attempts = maxRetries + 1
            /\ calls[p].pc = "thrown"
            /\ calls[p].result = Err("Error", MSG_NETWORK_ERROR)

\* a call has settled after its three attempts were aborted
C6_Witness ==
  \E p \in Procs :
    /\ Settled(calls[p])
    /\ calls[p].aborts = maxRetries + 1
    /\ calls[p].result = Err("Error", MSG_NETWORK_ERROR)

\* C7: every call of fetchApi eventually settles, whatever the network does.
C7_EveryCallSettles ==
  \A p \in Procs : (calls[p].pc # "idle") ~> Settled(calls[p])

BackoffDeadlines ==
  {calls[p].retryAt : p \in {q \in Procs : calls[q].pc = "backoff"}}

\* the clock moves to the end of a backoff, or by the lifetime of a cache
\* entry; it does not move while a settled fetchApi has its caller waiting,
\* the continuation of an await being a microtask
ServiceTick ==
  /\ \A p \in Procs : ~(op[p].pc = "awaiting" /\ Settled(calls[p]))
  /\ \E t \in {d \in BackoffDeadlines : d > now}
               \cup {t \in {now + CACHE_DURATION} : now <= MaxTime} :
       now' = t
  /\ UNCHANGED <<rlVars, rlInstantVars, cacheVars, counterVars, fetchVars,
                 outerVars>>

\* the backoff timer fires, in the first call of fetchApi of a run
ServiceBackoffEnds(p) ==
  /\ callsStarted = 1
  /\ BackoffEnds(p)

\* The operations in an environment where every request is answered or
\* rejected before its timeout, and where the retries are followed in the
\* first call of fetchApi only (a later call that meets a retryable failure
\* stays in its backoff): fetchApi settles with each of the outcomes it has (a
\* body, a provider error, a failure that is not retried, the network error
\* after the retries), and the clock only has to reach the ends of the
\* backoffs. The timeouts and the retries of every call are explored by Spec.
ServiceNext ==
  \/ ServiceTick
  \/ ChangeVersion
  \/ \E p \in Procs :
       \/ ServiceCall(p)
       \/ ServiceResumes(p)
       \/ FetchRejects(p)
       \/ ResponseArrives(p)
       \/ BodyParsed(p)
       \/ ErrorBodyParsed(p)
       \/ BodyFails(p)
       \/ ServiceBackoffEnds(p)

SpecService == Init /\ [][ServiceNext]_vars

\* the step is a call of an operation by p
ServiceCallBy(p) ==
  /\ serviceCalls' = serviceCalls + 1
  /\ \A q \in Procs \ {p} : op'[q] = op[q]

\* the limiter, the counter and fetchApi are left as they were
NoTraffic ==
  UNCHANGED <<rateLimiter, windowCalls, state, storedItem, calls,
              callsStarted, attemptsInWindow>>

Fresh(e, t) == t - e.timestamp < CACHE_DURATION

\* C12: an operation returns from the cache only the data of an entry that is
\* younger than CACHE_DURATION and of the configured version; when the entry
\* under its key is older or of another version the operation does not
\* return it and calls fetchApi.
C12_CachedResultIsFreshAndCurrent ==
  [][\A p \in Procs : ServiceCallBy(p) =>
       LET o == op'[p]
           e == MapGet(CacheOf(o.kind), o.key)
       IN /\ o.hit =>
               /\ e # Undefined
               /\ Fresh(e, now)
               /\ e.version = cacheVersion
               /\ o.pc = "returned"
               /\ o.result = Ok(e.data)
          /\ (e # Undefined /\ (~Fresh(e, now) \/ e.version # cacheVersion))
               => /\ ~o.hit
                  /\ o.pc = "awaiting"
                  /\ callsStarted' = callsStarted + 1]_vars

\* an operation is waiting for fetchApi while the cache holds, under its key,
\* an entry of the configured version that has outlived CACHE_DURATION
C12_Witness ==
  \E p \in Procs :
    /\ op[p].pc = "awaiting"
    /\ MapHas(CacheOf(op[p].kind), op[p].key)
    /\ MapGet(CacheOf(op[p].kind), op[p].key).version = cacheVersion
    /\ ~Fresh(MapGet(CacheOf(op[p].kind), op[p].key), now)

\* C13: an operation that finds, under the key it computed, an entry younger
\* than CACHE_DURATION and of the configured version returns the data of that
\* entry in the same step: no request is issued, the limiter is not
\* consulted and the usage counter is not incremented.
C13_FreshEntryServedWithoutTraffic ==
  [][\A p \in Procs : ServiceCallBy(p) =>
       LET o == op'[p]
           e == MapGet(CacheOf(o.kind), o.key)
       IN (o.key # <<>> /\ e # Undefined /\ Fresh(e, now)
             /\ e.version = cacheVersion)
            => /\ o.pc = "returned"
               /\ o.result = Ok(e.data)
               /\ NoTraffic]_vars

\* getForecastData has been answered from the cache after an earlier call
\* fetched the forecast
C13_Witness ==
  \E p \in Procs :
    /\ op[p].kind = "getForecastData"
    /\ op[p].hit
    /\ op[p].pc = "returned"
    /\ callsStarted = 1
    /\ state.count = 1

\* C14: searchCities never throws: every failure ends in the empty list.
C14_SearchNeverThrows ==
  \A p \in Procs : op[p].kind = "searchCities" => op[p].pc # "thrown"

\* the step leaves the limiter, the counter, fetchApi and the caches as they
\* were
NoEffect ==
  /\ NoTraffic
  /\ UNCHANGED <<cityCache, weatherCache, lastCached>>

FailsKeyMissing(o) ==
  /\ o.pc = "thrown"
  /\ o.result = Err("Error", MSG_API_KEY_MISSING)

C16_BlankCityFailsAtOnce ==
  [][\A p \in Procs : ServiceCallBy(p) =>
       LET o == op'[p]
       IN (o.kind \in {"getWeatherData", "getForecastData"}
             /\ \A i \in 1..Len(o.input) : o.input[i] = " ")
            => /\ o.pc = "thrown"
               /\ o.result = Err("Error", MSG_EMPTY_CITY)
               /\ NoEffect]_vars

\* getForecastData has refused a city made of white space, the key being
\* configured
C16_Witness ==
  /\ apiKey # <<>>
  /\ \E p \in Procs :
       /\ op[p].kind = "getForecastData"
       /\ op[p].input = <<" ", " ">>
       /\ op[p].result = Err("Error", MSG_EMPTY_CITY)

C36_ShortTrimmedQueryGoesNowhere ==
  [][\A p \in Procs : ServiceCallBy(p) =>
       LET o == op'[p]
       IN (o.kind = "searchCities" /\ apiKey # <<>>
             /\ Len(trim(o.input)) < MIN_QUERY_LENGTH)
            => /\ o.pc = "returned"
               /\ o.result = Ok(EmptyList)
               /\ NoEffect]_vars

\* the two queries differ at most in letter case and surrounding white space
SameButCaseAndSpace(a, b) == toLowerCase(trim(a)) = toLowerCase(trim(b))

\* the key the claim names for a query
TrimmedLowerEncoded(q) == EncodeAll(toLowerCase(trim(q)))

\* the step is a call of searchCities by p, less than CACHE_DURATION after a
\* searchCities stored its result, with a query that differs from the stored
\* one at most in letter case and surrounding white space
SearchedAgain(p) ==
  /\ ServiceCallBy(p)
  /\ op'[p].kind = "searchCities"
  /\ lastCached.at # NoTime
  /\ now - lastCached.at < CACHE_DURATION
  /\ SameButCaseAndSpace(op'[p].input, lastCached.query)

ServedFromLastCached(p) ==
  /\ op'[p].pc = "returned"
  /\ op'[p].result = Ok(lastCached.data)
  /\ NoTraffic

LacksHourlyForecast(d) ==
  IF d.forecast = Undefined THEN TRUE
  ELSE IF d.forecast.forecastday = Undefined THEN TRUE
  ELSE d.forecast.forecastday.items[1].hour = Undefined

FailedInvalidForecast(o) ==
  /\ o.kind = "getForecastData"
  /\ o.pc = "thrown"
  /\ o.result = Err("Error", MSG_INVALID_FORECAST)

\* C19: when fetchApi returns a payload that lacks forecast, forecastday or
\* the hours of the first day, getForecastData fails with the
\* invalid-forecast error and leaves the caches as they were; a following
\* call for the same city calls fetchApi again.
C19_InvalidForecastNotCached ==
  [][\A p \in Procs :
       /\ (op[p].pc = "awaiting" /\ op'[p].pc # "awaiting"
             /\ op[p].kind = "getForecastData"
             /\ calls[p].pc = "returned"
             /\ LacksHourlyForecast(calls[p].result.data))
            => /\ FailedInvalidForecast(op'[p])
               /\ UNCHANGED <<cityCache, weatherCache>>
       /\ (ServiceCallBy(p) /\ FailedInvalidForecast(op[p])
             /\ op'[p].kind = "getForecastData"
             /\ op'[p].input = op[p].input)
            => /\ op'[p].pc = "awaiting"
               /\ ~op'[p].hit
               /\ callsStarted' = callsStarted + 1]_vars

\* getForecastData has failed on a payload, and weatherCache holds nothing
\* under its key while it holds the current weather of the same city
C19_Witness ==
  \E p \in Procs :
    /\ FailedInvalidForecast(op[p])
    /\ op[p].key = <<"forecast_", "a", "b">>
    /\ ~MapHas(weatherCache, op[p].key)
    /\ MapHas(weatherCache, <<"weather_", "a", "b">>)

(***************************************************************************)
(* The normalisation of getWeatherData over provider readings              *)
(***************************************************************************)
\* getWeatherData builds its result from a payload with the given readings
TransformSample ==
  /\ ~sample.given
  /\ \E t \in 0..MaxTempTenths,
        f \in (0 - MaxFeelsTenths)..MaxFeelsTenths,
        w \in 0..MaxWindTenths :
       LET d == [temp_c |-> t, feelslike_c |-> f, wind_kph |-> w]
       IN sample' = [given |-> TRUE, payload |-> d,
                     data |-> TransformWeather(d)]
  /\ UNCHANGED <<clockVars, rlVars, rlInstantVars, cacheVars, counterVars,
                 fetchVars, serviceVars, laterVars>>

RoundNext == TransformSample

\* the application as built with its API key
InitRound == Init /\ apiKey # <<>>

SpecRound == InitRound /\ [][RoundNext]_vars

\* r is an integer nearest to n / d
Nearest(r, n, d) ==
  /\ 2 * (r * d - n) <= d
  /\ 2 * (n - r * d) <= d

\* C20: temp, temp_min and temp_max are temp_c and feels_like is feelslike_c,
\* rounded to a nearest whole degree; the wind speed is wind_kph / 3.6 rounded
\* to a nearest integer. Readings are in tenths, so 10 divides a degree and
\* 36 a unit of speed.
C20_RoundedToNearest ==
  sample.given =>
    /\ Nearest(sample.data.temp, sample.payload.temp_c, 10)
    /\ Nearest(sample.data.temp_min, sample.payload.temp_c, 10)
    /\ Nearest(sample.data.temp_max, sample.payload.temp_c, 10)
    /\ Nearest(sample.data.feels_like, sample.payload.feelslike_c, 10)
    /\ Nearest(sample.data.speed, sample.payload.wind_kph, 36)

\* temp_c 18.6 and wind_kph 10.8 have given 19 and 3
C20_Witness ==
  /\ sample.given
  /\ sample.payload.temp_c = 186
  /\ sample.payload.wind_kph = 108
  /\ sample.data.temp = 19
  /\ sample.data.speed = 3


(***************************************************************************)
(* fetchApi: what is retried, and after what delay                         *)
(***************************************************************************)
\* the failure of an attempt is one that the loop retries
Retryable(err) ==
  err.name = "AbortError" \/ Includes(err.message, "network")

\* an attempt of the call of p fails in this step
AttemptFails(p) ==
  /\ calls[p].pc \in {"fetching", "body", "errorBody"}
  /\ calls'[p].pc \in {"backoff", "thrown"}

\* C26: an attempt is retried only when it failed by an abort or with an
\* error whose message contains "network"; any other failure ends the call on
\* that attempt with the very error of the attempt, no backoff delay being
\* waited and no further attempt made.
C26_OnlyAbortOrNetworkRetried ==
  [][\A p \in Procs :
       /\ AttemptFails(p) =>
            /\ calls'[p].pc = "backoff" => Retryable(calls'[p].lastError)
            /\ ~Retryable(calls'[p].lastError) =>
                 /\ calls'[p].pc = "thrown"
                 /\ calls'[p].result = calls'[p].lastError
                 /\ calls'[p].retryAt = NoTime
                 /\ calls'[p].delays = calls[p].delays
                 /\ calls'[p].attempts = calls[p].attempts
       /\ (calls[p].pc = "thrown" /\ callsStarted' = callsStarted) =>
            calls'[p] = calls[p]]_vars

\* a call whose first attempt failed with a network error and was retried
\* has ended on its second attempt with an error of another kind
C26_Witness ==
  \E p \in Procs :
    /\ calls[p].pc = "thrown"
    /\ ~Retryable(calls[p].lastError)
    /\ calls[p].result = calls[p].lastError
    /\ calls[p].attempts = 2
    /\ Len(calls[p].delays) = 1

\* C27: the delay waited after failed attempt k is min(1000 * 2^k, 5000) ms:
\* 1000 ms then 2000 ms within one call, strictly increasing below the cap;
\* the next attempt starts no sooner than that delay after the failure.
C27_BackoffDelays ==
  [][\A p \in Procs :
       /\ \A i \in 1..Len(calls[p].delays) :
            /\ calls[p].delays[i] = Min(1000 * Pow2(i - 1), 5000)
            /\ (i > 1 /\ calls[p].delays[i - 1] < 5000) =>
                 calls[p].delays[i] > calls[p].delays[i - 1]
       /\ Len(calls[p].delays) <= 2 => calls[p].delays \in {<<>>, <<1000>>, <<1000, 2000>>}
       /\ (AttemptFails(p) /\ calls'[p].pc = "backoff") =>
            /\ calls'[p].delays =
                 Append(calls[p].delays, Min(1000 * Pow2(calls[p].attempt), 5000))
            /\ calls'[p].retryAt = now + Min(1000 * Pow2(calls[p].attempt), 5000)
       /\ (calls[p].pc = "backoff" /\ calls'[p].pc = "fetching") =>
            /\ now >= calls[p].retryAt
            /\ calls'[p].attempt = calls[p].attempt + 1]_vars

\* a call has waited 1000 ms and then 2000 ms and is making its third attempt
C27_Witness ==
  \E p \in Procs :
    /\ calls[p].delays = <<1000, 2000>>
    /\ calls[p].attempt = 2
    /\ calls[p].pc = "fetching"
    /\ now >= 3000


(***************************************************************************)
(* LRUCache: the order of eviction                                         *)
(***************************************************************************)
Without(s, gone) == SelectSeq(s, LAMBDA x : x \notin gone)
HeadOf(s) == IF Len(s) > 0 THEN [key |-> s[1]] ELSE Undefined

\* what an observer notes of set(k): which entry left, whether k's entry is a
\* new one, and what this means for the entries that get returned earlier
ObserveSet(k) ==
  LET ev == EvictedBy(cache)
      gone == IF ev = Undefined THEN {} ELSE {ev.key}
      isNew == ~MapHas(cache, k)
      created == isNew \/ k \in gone
      order(s) == IF created THEN Append(Without(s, gone), k)
                  ELSE Without(s, gone)
  IN /\ insertOrder' = order(insertOrder)
     /\ useOrder' = order(useOrder)
     /\ lastSet' = [full |-> Len(cache) >= MAX_SIZE, new |-> isNew,
                    evicted |-> ev, eldest |-> HeadOf(insertOrder),
                    lru |-> HeadOf(useOrder)]
     /\ hits' = [j \in Keys |->
                   IF j \in gone \/ ~hits[j].live
                   THEN NoHit
                   ELSE [hits[j] EXCEPT
                           !.others = @ \ gone,
                           !.touched = (@ \ gone) \cup
                                         (IF ~created /\ k \in hits[j].others
                                          THEN {k} ELSE {}),
                           !.disturbed = @ \/ ~isNew,
                           !.newSet = @ \/ isNew]]

\* what an observer notes of get(k) that returned r
ObserveGet(k, r) ==
  LET hit == r.result # Undefined
      removed == MapHas(cache, k) /\ ~hit
  IN /\ insertOrder' = IF removed THEN Without(insertOrder, {k})
                       ELSE insertOrder
     /\ useOrder' = IF removed THEN Without(useOrder, {k})
                    ELSE IF hit THEN Append(Without(useOrder, {k}), k)
                    ELSE useOrder
     /\ lastSet' = NoSet
     /\ hits' = [j \in Keys |->
                   IF j = k
                   THEN IF hit
                        THEN [live |-> TRUE, full |-> Len(cache) >= MAX_SIZE,
                              others |-> MapKeys(cache) \ {k}, touched |-> {},
                              disturbed |-> FALSE, newSet |-> FALSE]
                        ELSE NoHit
                   ELSE IF ~hits[j].live THEN NoHit
                   ELSE IF hit
                   THEN [hits[j] EXCEPT
                           !.touched = IF k \in hits[j].others
                                       THEN @ \cup {k} ELSE @,
                           !.disturbed = TRUE]
                   ELSE IF removed
                   THEN [hits[j] EXCEPT !.others = @ \ {k},
                                        !.touched = @ \ {k}]
                   ELSE hits[j]]

LruSet ==
  \E k \in Keys :
    /\ cache' = LRUSet(cache, k, "v1", now, cacheVersion)
    /\ ObserveSet(k)
    /\ cacheLastOp' = [op |-> "set", key |-> k, value |-> "v1"]
    /\ UNCHANGED <<cacheVersion, setRun, clockVars, rlVars, rlInstantVars,
                   counterVars, fetchVars, outerVars>>

LruGet ==
  \E k \in Keys :
    LET r == LRUGet(cache, k, cacheVersion)
    IN /\ cache' = r.cache
       /\ ObserveGet(k, r)
       /\ cacheLastOp' = [op |-> "get", key |-> k]
       /\ UNCHANGED <<cacheVersion, setRun, clockVars, rlVars, rlInstantVars,
                      counterVars, fetchVars, outerVars>>

LruClear ==
  /\ cache' = LRUClear(cache)
  /\ insertOrder' = <<>>
  /\ useOrder' = <<>>
  /\ lastSet' = NoSet
  /\ hits' = [k \in Keys |-> NoHit]
  /\ cacheLastOp' = [op |-> "clear"]
  /\ UNCHANGED <<cacheVersion, setRun, clockVars, rlVars, rlInstantVars,
                 counterVars, fetchVars, outerVars>>

\* the configured version stays the same here: what get does with an entry
\* of another version is followed in SpecCache
LruNext == LruSet \/ LruGet \/ LruClear

InitLru == Init /\ apiKey # <<>>

SpecLru == InitLru /\ [][LruNext]_vars

\* C28 as stated: a set on a full cache evicts the entry whose creation is the
\* earliest among the entries present, whatever get has returned since.
C28_EvictsEarliestInserted ==
  lastSet.full => lastSet.evicted = lastSet.eldest

\* C28: a set on a full cache evicts the entry that was created or returned
\* by get the longest ago, which is the first of the Map; when the key of that
\* entry is the empty string nothing is evicted. The other entries stay.
C28_EvictsLeastRecentlyUsed ==
  [][(cacheLastOp'.op = "set" /\ Len(cache) >= MAX_SIZE) =>
       /\ lastSet'.lru = [key |-> cache[1].key]
       /\ IF lastSet'.lru.key # <<>>
          THEN /\ lastSet'.evicted = lastSet'.lru
               /\ MapKeys(cache') = (MapKeys(cache) \ {lastSet'.lru.key})
                                      \cup {cacheLastOp'.key}
          ELSE /\ lastSet'.evicted = Undefined
               /\ MapKeys(cache') = MapKeys(cache) \cup {cacheLastOp'.key}]_vars

\* a set on a full cache has evicted an entry that was not the earliest
\* created: the earliest created had been returned by get
C28_Witness ==
  /\ lastSet.full
  /\ lastSet.evicted # Undefined
  /\ lastSet.evicted # lastSet.eldest
  /\ lastSet.evicted = lastSet.lru
  /\ MapHas(cache, lastSet.eldest.key)

\* a set step that stores key k' in a full cache
SetsNewKey == cacheLastOp'.op = "set" /\ ~MapHas(cache, cacheLastOp'.key)

\* C29 as stated: once get has returned k's entry in a full cache, the next
\* set of a new key does not evict k, and k is evicted only when every other
\* entry present at the time of the hit is gone.
C29_HitOutlivesAllPresent ==
  [][\A k \in Keys :
       (hits[k].live /\ hits[k].full) =>
         /\ (SetsNewKey /\ ~hits[k].newSet) => MapHas(cache', k)
         /\ (cacheLastOp'.op = "set" /\ lastSet'.evicted = [key |-> k]) =>
              hits[k].others = {}]_vars

\* C29: once get has returned k's entry in a full cache, the set of a new key
\* that comes next does not evict k when no other get hit and no set of a key
\* already present came in between; and k is evicted only when every other
\* entry present at the time of the hit is gone or has itself been returned by
\* get or stored again since.
C29_HitOutlivesUntouched ==
  [][\A k \in Keys :
       (hits[k].live /\ hits[k].full) =>
         /\ (SetsNewKey /\ ~hits[k].newSet /\ ~hits[k].disturbed) =>
              /\ MapHas(cache', k)
              /\ lastSet'.evicted # [key |-> k]
         /\ (cacheLastOp'.op = "set" /\ lastSet'.evicted = [key |-> k]) =>
              hits[k].others \subseteq hits[k].touched]_vars

\* the entry of a key was returned by get in a full cache and the set of a
\* new key that came next evicted another entry
C29_Witness ==
  \E k \in Keys :
    /\ hits[k].live /\ hits[k].full
    /\ hits[k].newSet /\ ~hits[k].disturbed
    /\ MapHas(cache, k)
    /\ lastSet.full /\ lastSet.new
    /\ lastSet.evicted # Undefined


\* C34: when set(k, v) is called on a full cache that holds an entry under
\* k, the keys of the cache and the number of its entries stay the same.
C34_RestoringKeepsOtherKeys ==
  [][(cacheLastOp'.op = "set" /\ MapHas(cache, cacheLastOp'.key)
        /\ Len(cache) >= MAX_SIZE) =>
       /\ MapKeys(cache') = MapKeys(cache)
       /\ Len(cache') = Len(cache)]_vars

(***************************************************************************)
(* The usage counter alone, over process lifetimes                         *)
(***************************************************************************)
\* values found under count and under lastReset in a stored record: an
\* instant of the month of startup, one of the month before, a text that is
\* not a date, or nothing
StartupCounts ==
  {JsonNumber(3, 0), JsonNumber(0 - 5, 0), JsonNumber(2, 5),
   JsonString("abc"), JsonString("7")}
StartupDates ==
  {JsonDate(0), JsonDate(0 - MonthLength), JsonString("abc"), JsonMissing}
\* what localStorage holds under STORAGE_KEY when the process starts
StartupItems ==
  {NullItem, MalformedItem}
    \cup {[kind |-> "record", count |-> c, lastReset |-> d] :
            c \in StartupCounts, d \in StartupDates}

InitUsage ==
  /\ InitApi
  /\ apiKey # <<>>
  /\ \E item \in StartupItems : InitCounter(item)

\* the calendar month an instant falls in, months being counted from 1970
MonthOf(t) == t \div MonthLength

\* a number of the counter, in tenths
Tenths(n) == 10 * n.count + n.fraction

\* time passes by half a month during the first two months, and by a year
UsageTick ==
  /\ \E d \in {MonthLength \div 2, 12 * MonthLength} :
       /\ now + d <= (IF d < MonthLength THEN 2 ELSE 14) * MonthLength
       /\ now' = now + d
  /\ UNCHANGED <<rlVars, rlInstantVars, cacheVars, counterVars, fetchVars,
                 outerVars>>

\* apiCounter.increment() is called
UsageIncrement ==
  LET before == getCount(state, storedItem, now, setItemFails)
      r == increment(state, storedItem, now, setItemFails)
  IN /\ counterCalls < MaxCounterCalls
     /\ counterCalls' = counterCalls + 1
     /\ state' = r.state
     /\ storedItem' = r.stored
     /\ counterLog' =
          [op |-> "increment", at |-> now, threw |-> r.threw,
           failed |-> setItemFails, before |-> before.value,
           changed |-> instance.born # MonthOf(now),
           firstOfMonth |-> instance.lastIncMonth # MonthOf(now)]
     /\ instance' = [instance EXCEPT !.allSaved = @ /\ ~setItemFails,
                                     !.lastIncMonth = MonthOf(now)]
     /\ UNCHANGED <<seen, setItemFails>>
     /\ UNCHANGED <<clockVars, rlVars, rlInstantVars, cacheVars, fetchVars,
                    serviceVars, roundVars, uiVars, watchVars>>

\* apiCounter.getCount() is called
UsageGetCount ==
  LET r == getCount(state, storedItem, now, setItemFails)
  IN /\ counterCalls < MaxCounterCalls
     /\ counterCalls' = counterCalls + 1
     /\ state' = r.state
     /\ storedItem' = r.stored
     /\ counterLog' =
          [op |-> "getCount", at |-> now, threw |-> r.threw,
           failed |-> setItemFails, before |-> r.value, value |-> r.value]
     /\ seen' = [valid |-> TRUE, month |-> MonthOf(now),
                 value |-> Tenths(r.value)]
     /\ instance' = [instance EXCEPT
                       !.allSaved = @ /\ ~(r.reset /\ setItemFails)]
     /\ UNCHANGED setItemFails
     /\ UNCHANGED <<clockVars, rlVars, rlInstantVars, cacheVars, fetchVars,
                    serviceVars, roundVars, uiVars, watchVars>>

\* the page is reloaded: the module is loaded anew over what localStorage
\* holds, and its counter is constructed
UsageRestart ==
  LET r == ApiCallCounterNew(storedItem, now, setItemFails)
  IN /\ instance.id < MaxInstances
     /\ state' = r.state
     /\ storedItem' = r.stored
     /\ instance' = NewInstance(instance.id + 1, now,
                                ~(r.reset /\ setItemFails))
     /\ counterLog' =
          [op |-> "restart", at |-> now,
           prior |-> [count |-> state.count, fraction |-> state.fraction],
           allSaved |-> instance.allSaved,
           sameMonth |-> MonthOf(state.lastReset) = MonthOf(now)]
     /\ seen' = NotSeen
     /\ UNCHANGED <<setItemFails, counterCalls>>
     /\ UNCHANGED <<clockVars, rlVars, rlInstantVars, cacheVars, fetchVars,
                    serviceVars, roundVars, uiVars, watchVars>>

\* the storage starts or stops refusing writes
StorageChanges ==
  /\ setItemFails' = ~setItemFails
  /\ UNCHANGED <<instance, counterLog, seen, counterCalls>>
  /\ UNCHANGED <<clockVars, rlVars, rlInstantVars, cacheVars, counterVars,
                 fetchVars, serviceVars, roundVars, uiVars, watchVars>>

UsageNext ==
  \/ UsageTick
  \/ UsageIncrement
  \/ UsageGetCount
  \/ UsageRestart
  \/ StorageChanges

SpecUsage == InitUsage /\ [][UsageNext]_vars

\* what getCount returns when called right after the step
CountAfter ==
  getCount(state', storedItem', now', setItemFails').value

\* C23: within one calendar month the value returned by getCount never
\* decreases over the calls made on one counter; and the first increment
\* made after the month or the year has changed makes getCount return 1.
C23_MonotonicWithinMonthThenOne ==
  [][counterCalls' = counterCalls + 1 =>
       /\ (counterLog'.op = "getCount" /\ seen.valid
             /\ seen.month = MonthOf(now)) => seen'.value >= seen.value
       /\ (counterLog'.op = "increment" /\ counterLog'.changed
             /\ counterLog'.firstOfMonth) =>
            CountAfter = [count |-> 1, fraction |-> 0]]_vars

\* a year after counting some calls, in the same month of the year, the first
\* increment has brought the count to 1
C23_Witness ==
  /\ counterLog.op = "increment"
  /\ counterLog.changed /\ counterLog.firstOfMonth
  /\ now >= 12 * MonthLength
  /\ getMonth(now) = 0
  /\ seen.valid /\ seen.month = 0 /\ seen.value >= 20
  /\ state.count = 1

\* C24: when every save succeeded, a counter constructed after a restart in
\* the same calendar month reports the count reached before the restart, and
\* the next increment brings it to that count plus one.
C24_CountSurvivesRestart ==
  [][(instance'.id = instance.id + 1 /\ instance.allSaved
        /\ MonthOf(state.lastReset) = MonthOf(now)) =>
       /\ CountAfter = [count |-> state.count, fraction |-> state.fraction]
       /\ increment(state', storedItem', now', setItemFails').state.count
            = state.count + 1]_vars

\* a counter was constructed after a restart in the month in which two calls
\* had been counted from zero and saved
C24_Witness ==
  /\ counterLog.op = "restart"
  /\ counterLog.allSaved /\ counterLog.sameMonth
  /\ counterCalls >= 2
  /\ counterLog.prior = [count |-> 2, fraction |-> 0]
  /\ state.count = counterLog.prior.count
  /\ storedItem = Stringify(state)

\* C25: while the storage refuses writes, increment and getCount do not
\* throw; increment raises the count that getCount returns by exactly 1, and
\* the count stays in memory whatever happens to the storage afterwards.
C25_FailedWriteStillCounts ==
  [][/\ (counterCalls' = counterCalls + 1 /\ setItemFails) =>
          /\ ~counterLog'.threw
          /\ storedItem' = storedItem
          /\ Tenths(CountAfter) =
               Tenths(counterLog'.before)
                 + (IF counterLog'.op = "increment" THEN 10 ELSE 0)
     /\ (counterCalls' = counterCalls /\ instance'.id = instance.id) =>
          state' = state]_vars

\* an increment was counted in memory while the write was refused
C25_Witness ==
  /\ counterLog.op = "increment"
  /\ counterLog.failed
  /\ ~counterLog.threw
  /\ state.count = counterLog.before.count + 1
  /\ state.count >= 2
  /\ storedItem # Stringify(state)

\* the counter has just been constructed or called: no time has passed since
JustActed ==
  IF counterLog.op = "new" THEN now = 0 ELSE counterLog.at = now

\* C31: whatever the stored record holds at startup, right after the
\* construction of a counter and after every increment and getCount the
\* lastReset of the state is a date of the current calendar month and year.
C31_LastResetInCurrentMonth ==
  JustActed =>
    /\ state.lastReset # InvalidDate
    /\ getMonth(state.lastReset) = getMonth(now)
    /\ getFullYear(state.lastReset) = getFullYear(now)

\* a year after the last reset, in the same month of the year, a call has
\* found the counter of a later process out of date and has reset it
C31_Witness ==
  /\ counterLog.op \in {"increment", "getCount"}
  /\ counterLog.at = now
  /\ instance.id > 1
  /\ now >= 12 * MonthLength
  /\ getMonth(now) = 0
  /\ state.lastReset = now
  /\ state.count <= 1

\* C30: whatever the stored record holds at startup, the count is an integer
\* greater than or equal to 0 after construction and after every call.
C30_CountIsNaturalNumber ==
  /\ state.fraction = 0
  /\ state.count >= 0


(***************************************************************************)
(* The Weather component: suggestions and searches of one UI session       *)
(***************************************************************************)
\* the caches, the limiter and the counter, as an operation finds them
Env ==
  [city |-> cityCache, weather |-> weatherCache, rl |-> rateLimiter,
   st |-> state, stored |-> storedItem]

EnvCache(kind, env) == IF kind = "searchCities" THEN env.city ELSE env.weather

WithCache(kind, env, m) ==
  IF kind = "searchCities"
  THEN [env EXCEPT !.city = m]
  ELSE [env EXCEPT !.weather = m]

\* an operation is called with input: it runs up to `await fetch(...)`. What
\* searchCities catches it answers by the empty list.
StartOp(kind, input, env) ==
  LET sanitized == sanitizeInput(input)
      key == cacheKey(kind, sanitized.value)
      r == LRUGet(EnvCache(kind, env), key, cacheVersion)
      res == canMakeRequest(env.rl, now)
      counted == increment(env.st, env.stored, now, setItemFails)
      looked == WithCache(kind, env, r.cache)
      settled(pc, result, e) ==
        [op |-> [NoOp EXCEPT !.pc = pc, !.key = key, !.result = result],
         env |-> e]
  IN IF kind = "searchCities" /\ QueryRejected(input)
     THEN settled("fulfilled", Ok(EmptyList), env)
     ELSE IF kind # "searchCities" /\ CityRejected(input)
     THEN settled("rejected", Err("Error", MSG_EMPTY_CITY), env)
     ELSE IF ~validateApiKey(apiKey)
     THEN settled("rejected", Err("Error", MSG_API_KEY_MISSING), env)
     ELSE IF ~sanitized.ok
     THEN settled("rejected", Err("URIError", MSG_URI_MALFORMED), env)
     ELSE IF r.result # Undefined /\ isCacheValid(r.result.timestamp, now)
     THEN settled("fulfilled", Ok(r.result.data), looked)
     ELSE IF ~res.ok
     THEN IF kind = "searchCities"
          THEN settled("fulfilled", Ok(EmptyList), [looked EXCEPT !.rl = res.rl])
          ELSE settled("rejected", Err("Error", MSG_RATE_LIMIT),
                       [looked EXCEPT !.rl = res.rl])
     ELSE settled("pending", NoResult,
                  [looked EXCEPT !.rl = res.rl, !.st = counted.state,
                                 !.stored = counted.stored])

\* the end of an operation that stores nothing
SettleOpWithoutStoring(kind, o, outcome, m, late) ==
  LET done(pc, result) ==
        [op |-> [o EXCEPT !.pc = pc, !.result = result, !.late = late],
         cache |-> m]
  IN IF ~outcome.ok
     THEN IF kind = "searchCities"
          THEN done("fulfilled", Ok(EmptyList))
          ELSE done("rejected", outcome)
     ELSE IF kind = "searchCities"
     THEN done("fulfilled", Ok(outcome.data))
     ELSE IF kind = "getWeatherData"
     THEN done("fulfilled", Ok(TransformWeather(outcome.data)))
     ELSE IF ~HasHourlyForecast(outcome.data)
     THEN done("rejected", Err("Error", MSG_INVALID_FORECAST))
     ELSE done("fulfilled", Ok(TransformForecast(outcome.data)))

\* fetchApi settles with outcome: the operation o goes on after its await
\* over the Map m of its cache; late tells that the search that called it is
\* over
SettleOp(kind, o, outcome, m, late) ==
  LET done(pc, result) ==
        [op |-> [o EXCEPT !.pc = pc, !.result = result, !.late = late],
         cache |-> m]
      stored(data) ==
        [op |-> [o EXCEPT !.pc = "fulfilled", !.result = Ok(data),
                          !.late = late],
         cache |-> LRUSet(m, o.key, data, now, cacheVersion)]
  IN IF ~outcome.ok
     THEN IF kind = "searchCities"
          THEN done("fulfilled", Ok(EmptyList))
          ELSE done("rejected", outcome)
     ELSE IF kind = "searchCities"
     THEN stored(outcome.data)
     ELSE IF kind = "getWeatherData"
     THEN stored(TransformWeather(outcome.data))
     ELSE IF ~HasHourlyForecast(outcome.data)
     THEN done("rejected", Err("Error", MSG_INVALID_FORECAST))
     ELSE stored(TransformForecast(outcome.data))

\* the effects of an operation's start on the module state of api.ts
ApplyEnv(env) ==
  /\ cityCache' = env.city
  /\ weatherCache' = env.weather
  /\ rateLimiter' = env.rl
  /\ state' = env.st
  /\ storedItem' = env.stored

\* cleanup(): both timers are cleared and the controller of the ref, if
\* there is one, is aborted
cleanup(r) ==
  [r EXCEPT !.debounce = FALSE, !.searchTimeout = FALSE,
            !.aborted = IF r.controller # 0 THEN @ \cup {r.controller} ELSE @]

\* the effect that follows a change of city: cleanup, then the two timers
\* are armed when the city has MIN_SEARCH_LENGTH characters
SuggestionEffect(u, r) ==
  IF Len(u.city) < MIN_SEARCH_LENGTH
  THEN [ui |-> [u EXCEPT !.suggestions = <<>>, !.showSuggestions = FALSE],
        refs |-> cleanup(r)]
  ELSE [ui |-> u,
        refs |-> [cleanup(r) EXCEPT !.debounce = TRUE, !.searchTimeout = TRUE]]

\* handleSearch after `await Promise.all(...)`, the promises being w and f
\* and failed the first of them to be rejected: what is shown, and the refs
HandleSearchEnds(u, r, w, f, failed) ==
  IF failed.pc = "rejected"
  THEN [ui |-> [u EXCEPT !.error = [message |-> failed.result.message],
                         !.weather = Null, !.forecast = Null,
                         !.loading = FALSE],
        refs |-> cleanup(r), pc |-> "failed"]
  ELSE IF ~HasHourlyForecast(f.result.data)
  THEN [ui |-> [u EXCEPT !.error = [message |-> UI_MSG_INVALID_STRUCTURE],
                         !.weather = Null, !.forecast = Null,
                         !.loading = FALSE],
        refs |-> cleanup(r), pc |-> "failed"]
  ELSE [ui |-> [u EXCEPT !.weather = w.result.data,
                         !.forecast = f.result.data,
                         !.error = Null, !.loading = FALSE],
        refs |-> cleanup(r), pc |-> "shown"]

\* Promise.all over w and f has settled
Joined(w, f) ==
  \/ w.pc = "rejected" \/ f.pc = "rejected"
  \/ w.pc = "fulfilled" /\ f.pc = "fulfilled"

\* what follows the return of the event handler: the effect of the change of
\* city when a suggestion was clicked
After(u, r, term, clicked) ==
  IF clicked
  THEN SuggestionEffect([u EXCEPT !.city = term \o COUNTRY], r)
  ELSE [ui |-> u, refs |-> r]

\* handleSearch(e, searchCity) for the term, in the state u of the component
\* as the handler sees it, called by the click of a suggestion or not
HandleSearch(term, u, clicked) ==
  LET id == searchesStarted + 1
      begun == [u EXCEPT !.loading = TRUE, !.error = Null,
                         !.showSuggestions = FALSE, !.suggestions = <<>>]
      r0 == [cleanup(refs) EXCEPT !.controller = id]
      w == StartOp("getWeatherData", term, Env)
      f == StartOp("getForecastData", term, w.env)
      e == After(begun, r0, term, clicked)
      ended == HandleSearchEnds(e.ui, e.refs, w.op, f.op,
                                IF w.op.pc = "rejected" THEN w.op ELSE f.op)
  IN IF trim(term) = <<>>
     THEN /\ ui' = After([u EXCEPT !.error = [message |-> MSG_EMPTY_CITY]],
                         refs, term, clicked).ui
          /\ refs' = After(u, refs, term, clicked).refs
          /\ UNCHANGED <<searches, searchesStarted>>
          /\ UNCHANGED <<cityCache, weatherCache, rateLimiter, counterVars>>
     ELSE IF Len(term) < MIN_SEARCH_LENGTH
     THEN /\ ui' = After([u EXCEPT !.error = [message |-> UI_MSG_MIN_LENGTH]],
                         refs, term, clicked).ui
          /\ refs' = After(u, refs, term, clicked).refs
          /\ UNCHANGED <<searches, searchesStarted>>
          /\ UNCHANGED <<cityCache, weatherCache, rateLimiter, counterVars>>
     ELSE /\ searchesStarted < MaxSearches
          /\ searchesStarted' = id
          /\ ApplyEnv(f.env)
          /\ IF Joined(w.op, f.op)
             THEN /\ ui' = ended.ui
                  /\ refs' = ended.refs
                  /\ searches' = [searches EXCEPT ![id] =
                                    [pc |-> ended.pc, term |-> term,
                                     weather |-> w.op, forecast |-> f.op]]
             ELSE /\ ui' = e.ui
                  /\ refs' = e.refs
                  /\ searches' = [searches EXCEPT ![id] =
                                    [pc |-> "awaiting", term |-> term,
                                     weather |-> w.op, forecast |-> f.op]]

\* what the events of this component leave alone
UiFrame ==
  UNCHANGED <<clockVars, windowCalls, windowGrants, lastResult, rlInstantVars,
              cacheVars, fetchVars, apiKey, op, serviceCalls, lastCached,
              roundVars, storageVars, watchVars>>

\* the user types one more character in the input, which is enabled while
\* nothing is loading
TypeCity ==
  \E c \in Cities :
    LET e == SuggestionEffect([ui EXCEPT !.city = c], refs)
    IN /\ ~ui.loading
       /\ Len(c) = Len(ui.city) + 1
       /\ SubSeq(c, 1, Len(ui.city)) = ui.city
       /\ ui' = e.ui
       /\ refs' = e.refs
       /\ UNCHANGED <<lookup, lookupsStarted, searches, searchesStarted>>
       /\ UNCHANGED <<cityCache, weatherCache, rateLimiter, counterVars>>
       /\ UiFrame

\* the debounce timer fires: searchCities(city) is called
DebounceFires ==
  LET s == StartOp("searchCities", ui.city, Env)
  IN /\ refs.debounce
     /\ lookup.pc # "pending"
     /\ lookupsStarted < MaxLookups
     /\ lookupsStarted' = lookupsStarted + 1
     /\ refs' = [refs EXCEPT !.debounce = FALSE]
     /\ ApplyEnv(s.env)
     /\ lookup' = s.op
     /\ ui' = IF s.op.pc = "fulfilled"
              THEN [ui EXCEPT !.suggestions = s.op.result.data.items,
                              !.showSuggestions = TRUE]
              ELSE IF s.op.pc = "rejected"
              THEN [ui EXCEPT !.suggestions = <<>>,
                              !.error = [message |-> UI_MSG_GENERIC_ERROR]]
              ELSE ui
     /\ UNCHANGED <<searches, searchesStarted>>
     /\ UiFrame

\* the lookup of suggestions settles
LookupSettles ==
  \E outcome \in {Ok(CityList), Err("Error", MSG_NETWORK_ERROR)} :
    LET s == SettleOp("searchCities", lookup, outcome, cityCache, FALSE)
    IN /\ lookup.pc = "pending"
       /\ lookup' = s.op
       /\ cityCache' = s.cache
       /\ ui' = [ui EXCEPT !.suggestions = s.op.result.data.items,
                           !.showSuggestions = TRUE]
       /\ UNCHANGED <<refs, lookupsStarted, searches, searchesStarted>>
       /\ UNCHANGED <<weatherCache, rateLimiter, counterVars>>
       /\ UiFrame

\* the search timer, armed with the debounce timer and due after it, fires
SearchTimeoutFires ==
  /\ refs.searchTimeout
  /\ ~refs.debounce
  /\ refs' = cleanup(refs)
  /\ ui' = [ui EXCEPT !.error = [message |-> UI_MSG_SEARCH_TIMEOUT]]
  /\ UNCHANGED <<lookup, lookupsStarted, searches, searchesStarted>>
  /\ UNCHANGED <<cityCache, weatherCache, rateLimiter, counterVars>>
  /\ UiFrame

\* the form is submitted, which the disabled button prevents while loading
Submit ==
  /\ ~ui.loading
  /\ HandleSearch(ui.city, ui, FALSE)
  /\ UNCHANGED <<lookup, lookupsStarted>>
  /\ UiFrame

\* a suggestion of the list is clicked: handleSuggestionClick sets the city
\* and calls handleSearch with the name; the effect of the change of city
\* runs when the handler has returned
ClickSuggestion ==
  \E i \in 1..Len(ui.suggestions) :
    LET name == ui.suggestions[i]
        chosen == [ui EXCEPT !.showSuggestions = FALSE, !.suggestions = <<>>]
    IN /\ ui.showSuggestions
       /\ HandleSearch(name, chosen, TRUE)
       /\ UNCHANGED <<lookup, lookupsStarted>>
       /\ UiFrame

\* the bodies the provider answers a search with: with the hours of the
\* first day, and without
SearchPayloads == {d \in Payloads : HasForecastDays(d)}

\* fetchApi settles for one of the two operations of a search; when this
\* settles Promise.all, handleSearch goes on
SearchOpSettles ==
  \E id \in 1..MaxSearches, which \in {"weather", "forecast"},
     outcome \in {Ok(d) : d \in SearchPayloads}
                   \cup {Err("Error", MSG_NETWORK_ERROR)} :
    LET s == searches[id]
        kind == IF which = "weather" THEN "getWeatherData" ELSE "getForecastData"
        r == SettleOp(kind, s[which], outcome, weatherCache,
                      s.pc # "awaiting")
        w == IF which = "weather" THEN r.op ELSE s.weather
        f == IF which = "forecast" THEN r.op ELSE s.forecast
        ended == HandleSearchEnds(ui, refs, w, f, r.op)
    IN /\ s.pc # "none"
       /\ s[which].pc = "pending"
       /\ weatherCache' = r.cache
       /\ IF s.pc = "awaiting" /\ Joined(w, f)
          THEN /\ ui' = ended.ui
               /\ refs' = ended.refs
               /\ searches' = [searches EXCEPT ![id] =
                                 [s EXCEPT !.pc = ended.pc, !.weather = w,
                                           !.forecast = f]]
          ELSE /\ searches' = [searches EXCEPT ![id] =
                                 [s EXCEPT !.weather = w, !.forecast = f]]
               /\ UNCHANGED <<ui, refs>>
       /\ UNCHANGED <<lookup, lookupsStarted, searchesStarted>>
       /\ UNCHANGED <<cityCache, rateLimiter, counterVars>>
       /\ UiFrame

\* a limiter window goes by, once, while no timer of the component is armed
SearchTick ==
  /\ ~refs.debounce /\ ~refs.searchTimeout
  /\ Tick({WINDOW_MS + baseDelay}, WINDOW_MS + baseDelay)
  /\ UNCHANGED <<rlVars, rlInstantVars, cacheVars, counterVars, fetchVars,
                 outerVars>>

SearchNext ==
  \/ SearchTick
  \/ TypeCity
  \/ DebounceFires
  \/ LookupSettles
  \/ SearchTimeoutFires
  \/ Submit
  \/ ClickSuggestion
  \/ SearchOpSettles

InitSearch == Init /\ apiKey # <<>>

SpecSearch == InitSearch /\ [][SearchNext]_vars

\* the search is live: handleSearch awaits its requests, one of which at
\* least is in flight
InFlight(s) ==
  /\ s.pc = "awaiting"
  /\ s.weather.pc = "pending" \/ s.forecast.pc = "pending"

\* C21: at most one search has requests in flight at any time, the start of a
\* search aborting the requests of the one before.
C21_OneSearchInFlight ==
  Cardinality({id \in 1..MaxSearches : InFlight(searches[id])}) <= 1

\* C22: when one of the two operations of a search fails, the search ends
\* with the error shown and weather and forecast cleared; the other
\* operation, if it is still pending, stays pending, and when it succeeds
\* later its result is stored in the cache.
C22_FailureEndsSearchOtherGoesOn ==
  [][\A id \in 1..MaxSearches :
       LET s == searches[id]
           t == searches'[id]
       IN /\ (s.pc = "awaiting"
                /\ (t.weather.pc = "rejected" \/ t.forecast.pc = "rejected")) =>
               /\ t.pc = "failed"
               /\ ui'.error # Null
               /\ ui'.error.message # <<>>
               /\ \E which \in {"weather", "forecast"} :
                    /\ t[which].pc = "rejected"
                    /\ ui'.error.message = t[which].result.message
               /\ ui'.weather = Null /\ ui'.forecast = Null
               /\ ~ui'.loading
               /\ \A which \in {"weather", "forecast"} :
                    (s[which].pc = "pending" /\ t[which].pc # "rejected") =>
                      t[which] = s[which]
          /\ \A which \in {"weather", "forecast"} :
               (s.pc = "failed" /\ s[which].pc = "pending"
                  /\ t[which].pc = "fulfilled") =>
                 /\ MapHas(weatherCache', t[which].key)
                 /\ MapGet(weatherCache', t[which].key).data
                      = t[which].result.data]_vars

\* a search has ended on the failure of its weather request, and its forecast
\* request has succeeded afterwards and is in the cache
C22_Witness ==
  \E id \in 1..MaxSearches :
    /\ searches[id].pc = "failed"
    /\ searches[id].weather.pc = "rejected"
    /\ ~searches[id].weather.late
    /\ searches[id].forecast.pc = "fulfilled"
    /\ searches[id].forecast.late
    /\ MapHas(weatherCache, searches[id].forecast.key)
    /\ ui.error # Null
    /\ ui.weather = Null

(***************************************************************************)
(* The rate limiter around the boundaries of its windows                   *)
(***************************************************************************)
\* the instants at which the limiter is called: the middle of a window, its
\* last instant, and the instants that follow it
BurstInstants ==
  {WINDOW_MS \div 2, WINDOW_MS, WINDOW_MS + 1, WINDOW_MS + WINDOW_MS \div 2,
   2 * WINDOW_MS, 2 * WINDOW_MS + 1, 2 * WINDOW_MS + 2}

BurstTick ==
  /\ \E t \in BurstInstants : now < t /\ now' = t
  /\ UNCHANGED <<rlVars, rlInstantVars, cacheVars, counterVars, fetchVars,
                 outerVars>>

\* the latest n elements of s
LastOf(s, n) == IF Len(s) <= n THEN s ELSE SubSeq(s, Len(s) - n + 1, Len(s))

\* rateLimiter.canMakeRequest() is called; the instant is noted when the
\* answer is true
BurstCall ==
  LET res == canMakeRequest(rateLimiter, now)
  IN /\ rateLimiter.requests < RATE_LIMIT + MaxOver
          \/ now - rateLimiter.lastReset > WINDOW_MS
     /\ LimiterCall(res)
     /\ grantTimes' = IF res.ok
                      THEN LastOf(Append(grantTimes, now), 2 * RATE_LIMIT + 1)
                      ELSE grantTimes
     /\ UNCHANGED <<clockVars, rlInstantVars, cacheVars, counterVars,
                    fetchVars, serviceVars, roundVars, storageVars, uiVars>>

BurstNext == BurstTick \/ BurstCall

InitBurst == Init /\ apiKey # <<>>

SpecBurst == InitBurst /\ [][BurstNext]_vars

\* C32: in any interval of 60 seconds canMakeRequest answers true at most
\* 2 * RATE_LIMIT times: of any 2 * RATE_LIMIT + 1 successive calls answered
\* true, the last is made more than 60 seconds after the first.
C32_AtMostTwiceLimitPerInterval ==
  Len(grantTimes) = 2 * RATE_LIMIT + 1 =>
    grantTimes[Len(grantTimes)] - grantTimes[1] > WINDOW_MS

\* 2 * RATE_LIMIT calls were answered true within one millisecond, across
\* the end of a window, and the call that followed was refused
C32_Witness ==
  /\ Len(grantTimes) >= 2 * RATE_LIMIT
  /\ grantTimes[Len(grantTimes)]
       - grantTimes[Len(grantTimes) - 2 * RATE_LIMIT + 1] = 1
  /\ windowCalls > RATE_LIMIT
  /\ ~lastResult

(***************************************************************************)
(* Calls of fetchApi in progress at once                                   *)
(***************************************************************************)
\* the clock moves past the end of a limiter window, and with it past the
\* deadlines of the backoff timers that are armed
ConcurrentTick ==
  /\ Tick({WINDOW_MS + baseDelay}, MaxTime)
  /\ UNCHANGED <<rlVars, rlInstantVars, cacheVars, counterVars, fetchVars,
                 outerVars>>

\* each caller runs fetchApi from one suspension point to the next, in any
\* order with the other
ConcurrentNext ==
  \/ ConcurrentTick
  \/ \E p \in Callers :
       \/ FetchApiCall(p)
       \/ FetchRejects(p)
       \/ ResponseArrives(p)
       \/ BodyParsed(p)
       \/ BackoffEnds(p)

InitConcurrent == Init /\ apiKey # <<>>

SpecConcurrent == InitConcurrent /\ [][ConcurrentNext]_vars

\* calls that the limiter admitted and that have not settled
InProgress == {p \in Callers : calls[p].admitted /\ ~Settled(calls[p])}

\* C33: whatever the order in which the calls in progress go on, every step
\* raises the usage count by one when the limiter admits a call, and by
\* nothing otherwise, the count starting again from zero with the month; and
\* the limiter admits at most RATE_LIMIT calls per window.
C33_NoLostUpdate ==
  [][/\ state'.count =
          (IF MonthOf(state'.lastReset) = MonthOf(state.lastReset)
           THEN state.count ELSE 0)
            + (IF callsStarted' # callsStarted /\ lastResult' THEN 1 ELSE 0)
     /\ state'.count = admittedInMonth'.calls
     /\ windowGrants' <= RATE_LIMIT]_vars

\* two calls are in progress, one fetching and one waiting to retry, and
\* the count is that of the calls admitted
C33_Witness ==
  /\ InProgress = Callers
  /\ \E p, q \in Callers :
       /\ calls[p].pc = "backoff" /\ calls[p].attempt = 1
       /\ calls[q].pc = "fetching" /\ calls[q].attempt = 0
  /\ callsStarted >= 3
  /\ state.count = callsStarted

(***************************************************************************)
(* The operations under the configuration of one build                     *)
(***************************************************************************)
\* CONFIG.CACHE.VERSION is a constant of the build: while the module lives,
\* every entry is stored and looked up under the same version
BuildNext ==
  \/ ServiceTick
  \/ \E p \in Procs :
       \/ ServiceCall(p)
       \/ ServiceResumes(p)
       \/ FetchRejects(p)
       \/ ResponseArrives(p)
       \/ BodyParsed(p)
       \/ ErrorBodyParsed(p)
       \/ BodyFails(p)
       \/ ServiceBackoffEnds(p)

InitBuild == Init /\ apiKey # <<>>

SpecBuild == InitBuild /\ [][BuildNext]_vars

\* the keys of a Map with the data and the timestamp stored under each
EntriesOf(m) ==
  {[key |-> m[i].key, data |-> m[i].data, timestamp |-> m[i].timestamp] :
     i \in 1..Len(m)}

\* the step leaves in both caches the keys, data and timestamps there were
SameEntries ==
  /\ EntriesOf(cityCache') = EntriesOf(cityCache)
  /\ EntriesOf(weatherCache') = EntriesOf(weatherCache)

\* C35: a call of an operation that misses the cache and whose fetchApi
\* fails leaves the keys of the caches, and the data and timestamp under
\* each key, as they were: the lookup that misses changes none of them,
\* nothing changes them while the operation awaits fetchApi, and the
\* operation that resumes on the failure changes none of them.
C35_FailedRequestWritesNothing ==
  [][\A p \in Procs :
       /\ (ServiceCallBy(p) /\ op'[p].pc = "awaiting") => SameEntries
       /\ (op[p].pc = "awaiting"
             /\ (op'[p].pc = "awaiting" \/ calls[p].pc = "thrown"))
            => SameEntries]_vars

\* getWeatherData has failed on the failure of fetch() after it met under
\* its key an entry older than the cache duration, which is still there
C35_Witness ==
  \E p \in Procs :
    /\ op[p].kind = "getWeatherData"
    /\ op[p].pc = "thrown"
    /\ op[p].result.name = "TypeError"
    /\ MapHas(weatherCache, op[p].key)
    /\ ~isCacheValid(MapGet(weatherCache, op[p].key).timestamp, now)

\* C37: the error of the search timeout is set only while the lookup of
\* suggestions is in progress: once searchCities has delivered its
\* suggestions, no timeout error follows.
C37_TimeoutOnlyWhileLookupPending ==
  [][(ui'.error # ui.error
        /\ ui'.error = [message |-> UI_MSG_SEARCH_TIMEOUT]) =>
       lookup.pc = "pending"]_vars

\* every search that was started has settled
AllSettled ==
  /\ searchesStarted > 0
  /\ \A id \in 1..MaxSearches : searches[id].pc # "awaiting"

\* C38: once every search has settled, the weather and the forecast shown
\* are those of the search started last: its data when it succeeded, and
\* nothing when it failed.
C38_LatestSearchShown ==
  AllSettled =>
    LET s == searches[searchesStarted]
    IN IF s.pc = "shown"
       THEN /\ ui.weather = s.weather.result.data
            /\ ui.forecast = s.forecast.result.data
       ELSE ui.weather = Null /\ ui.forecast = Null

====
